---------------------------- MODULE Spec2Model ----------------------------
(***************************************************************************)
(* Salt_Waste_Optimization: the physics composition model                  *)
(* (digital_twin_module-v2/src/physics_models.py), the calibrated          *)
(* predictor (digital_twin_module-v2/src/digital_twin.py), the feature     *)
(* constraints (waste_optimization_module/constraints.py) and the          *)
(* optimizer (waste_optimization_module/optimizer.py).                     *)
(*                                                                         *)
(* Floating-point numbers are modelled as exact rationals [n, d] in lowest *)
(* terms with d > 0, extended with the three IEEE non-finite values        *)
(* (d = 0): +inf [1,0], -inf [-1,0] and nan [0,0].  Signed zeros are not   *)
(* distinguished and rounding error is not modelled.                       *)
(***************************************************************************)
EXTENDS Integers, Sequences, FiniteSets, TLC

VARIABLES
    production_weight,   \* WasteDistributor.production_weight (an exponent)
    rain_weight,         \* WasteDistributor.rain_weight
    temp_weight,         \* WasteDistributor.temp_weight
    calibration_factor,  \* WasteDistributor.calibration_factor
    composition_model,   \* WasteDistributor.composition_model: its four tables
    constraints,         \* FeatureConstraints: its tables BOUNDS, SEASONAL_PATTERNS
    model,               \* WasteOptimizer.model and scaler: the loaded regressor
    solver,              \* how the installed scipy searches and terminates
    scipy_calls,         \* the calls the last operation made to scipy
    op,                  \* name of the last operation called
    args,                \* its arguments
    result               \* what it returned (or that it raised)

vars == <<production_weight, rain_weight, temp_weight, calibration_factor,
          composition_model, constraints, model, solver, scipy_calls, op, args,
          result>>

-----------------------------------------------------------------------------
(* Float arithmetic *)

Abs(x) == IF x < 0 THEN -x ELSE x

Sgn(x) == IF x < 0 THEN -1 ELSE IF x > 0 THEN 1 ELSE 0

RECURSIVE GCD(_, _)
GCD(a, b) == IF b = 0 THEN a ELSE GCD(b, a % b)

\* the float n/d, d # 0, in lowest terms
Q(n, d) ==
    LET g == GCD(Abs(n), Abs(d))
        s == IF d < 0 THEN -1 ELSE 1
    IN  [n |-> s * (n \div g), d |-> s * (d \div g)]

I(k) == [n |-> k, d |-> 1]

NaN == [n |-> 0, d |-> 0]

Inf(s) == [n |-> s, d |-> 0]

IsFinite(a) == a.d # 0

IsNaN(a) == a.d = 0 /\ a.n = 0

IsZero(a) == a.d # 0 /\ a.n = 0

\* an operation computes each operand once, as the interpreter does: the
\* operands are bound as values before the operation is worked out

Neg(operand) ==
    CHOOSE negated \in
      {[n |-> -a.n, d |-> a.d] :
          a \in {operand}} : TRUE

Mul(left, right) ==
    CHOOSE product \in
      {IF IsNaN(a) \/ IsNaN(b) THEN NaN
        ELSE IF ~IsFinite(a) \/ ~IsFinite(b)
             THEN (IF IsZero(a) \/ IsZero(b) THEN NaN ELSE Inf(Sgn(a.n) * Sgn(b.n)))
        ELSE LET g1 == GCD(Abs(a.n), b.d)
                 g2 == GCD(Abs(b.n), a.d)
             IN  [n |-> (a.n \div g1) * (b.n \div g2),
                  d |-> (a.d \div g2) * (b.d \div g1)] :
          a \in {left}, b \in {right}} : TRUE

Add(left, right) ==
    CHOOSE sum \in
      {IF IsNaN(a) \/ IsNaN(b) THEN NaN
        ELSE IF ~IsFinite(a)
             THEN (IF ~IsFinite(b) /\ b.n # a.n THEN NaN ELSE a)
        ELSE IF ~IsFinite(b) THEN b
        ELSE LET g == GCD(a.d, b.d)
             IN  Q(a.n * (b.d \div g) + b.n * (a.d \div g), (a.d \div g) * b.d) :
          a \in {left}, b \in {right}} : TRUE

Sub(a, b) == Add(a, Neg(b))

\* numpy float64 division: x/0 is +-inf, 0/0 is nan
Div(left, right) ==
    CHOOSE quotient \in
      {IF IsNaN(a) \/ IsNaN(b) THEN NaN
        ELSE IF ~IsFinite(b)
             THEN (IF ~IsFinite(a) THEN NaN ELSE I(0))
        ELSE IF ~IsFinite(a)
             THEN Inf(a.n * (IF b.n < 0 THEN -1 ELSE 1))
        ELSE IF b.n = 0
             THEN (IF a.n = 0 THEN NaN ELSE Inf(Sgn(a.n)))
        ELSE Mul(a, Q(b.d, b.n)) :
          a \in {left}, b \in {right}} : TRUE

\* a < b; every comparison with nan is false
Lt(left, right) ==
    CHOOSE less \in
      {IF IsNaN(a) \/ IsNaN(b) THEN FALSE
        ELSE IF ~IsFinite(a) THEN a.n < 0 /\ ~(~IsFinite(b) /\ b.n < 0)
        ELSE IF ~IsFinite(b) THEN b.n > 0
        ELSE a.n * b.d < b.n * a.d :
          a \in {left}, b \in {right}} : TRUE

Le(left, right) ==
    CHOOSE less_or_equal \in
      {~IsNaN(a) /\ ~IsNaN(b) /\ ~Lt(b, a) :
          a \in {left}, b \in {right}} : TRUE

\* Python's builtin min(a, b) and max(a, b): the first argument unless the
\* second is strictly smaller (larger)
PyMin(left, right) ==
    CHOOSE least \in
      {IF Lt(b, a) THEN b ELSE a :
          a \in {left}, b \in {right}} : TRUE

PyMax(left, right) ==
    CHOOSE greatest \in
      {IF Lt(a, b) THEN b ELSE a :
          a \in {left}, b \in {right}} : TRUE

RECURSIVE Pow(_, _)
Pow(a, k) == IF k = 0 THEN I(1) ELSE Mul(a, Pow(a, k - 1))

\* the largest r in lo..hi with r * r <= m, by bisection
RECURSIVE ISqrtIn(_, _, _)
ISqrtIn(m, lo, hi) ==
    IF lo >= hi THEN lo
    ELSE LET mid == (lo + hi + 1) \div 2
         IN  IF mid * mid <= m THEN ISqrtIn(m, mid, hi) ELSE ISqrtIn(m, lo, mid - 1)

\* 46340 is the largest integer whose square is a 32-bit integer
ISqrt(m) == ISqrtIn(m, 0, IF m < 46340 THEN m ELSE 46340)

\* the square root of a non-square is kept to 1/SqrtScale
SqrtScale == 100

\* a ** 0.5: exact on squares of rationals, otherwise truncated to
\* 1/SqrtScale; nan below zero (numpy) and for nan
Sqrt(operand) ==
    CHOOSE root \in
      {IF IsNaN(a) THEN NaN
        ELSE IF ~IsFinite(a) THEN (IF a.n > 0 THEN a ELSE NaN)
        ELSE IF a.n < 0 THEN NaN
        ELSE LET rn == ISqrt(a.n)
                 rd == ISqrt(a.d)
             IN  IF rn * rn = a.n /\ rd * rd = a.d THEN Q(rn, rd)
                 ELSE Q(ISqrt((a.n * SqrtScale * SqrtScale) \div a.d), SqrtScale) :
          a \in {operand}} : TRUE

-----------------------------------------------------------------------------
(* physics_models.py: WasteCompositionModel *)

\* WasteCompositionModel.__init__: the attributes of a new model
WasteCompositionModel ==
    [solid_ratios |->
        [Limestone |-> Q(15, 100), Gypsum |-> Q(60, 100),
         Industrial_Salt |-> Q(25, 100)],
     base_bittern_ratio |-> Q(3, 10),
     intensity_bittern_ratio |-> Q(7, 10),
     recovery_factors |->
        [Epsom_Salt |-> Q(5, 100), Potash |-> Q(2, 100),
         Magnesium_Oil |-> Q(10, 100)]]

\* self.solid_ratios, self.base_bittern_ratio, self.intensity_bittern_ratio
\* and self.recovery_factors, as calculate_composition reads them
solid_ratios == composition_model.solid_ratios

base_bittern_ratio == composition_model.base_bittern_ratio

intensity_bittern_ratio == composition_model.intensity_bittern_ratio

recovery_factors == composition_model.recovery_factors

\* row.get('production_capacity', production_vol / 0.8)
row_capacity(row) ==
    IF "production_capacity" \in DOMAIN row THEN row.production_capacity
    ELSE Div(row.production_volume, Q(8, 10))

scale_efficiency(production_capacity) ==
    PyMin(Q(12, 10), Div(production_capacity, I(50000)))

limestone_score(scale_eff) == Div(solid_ratios.Limestone, scale_eff)

\* gypsum_score with the "1 +" of the temperature term forgotten
gypsum_score_no_baseline(temp, scale_eff) ==
    LET gypsum_base == Mul(solid_ratios.Gypsum, Mul(Q(1, 100), Sub(temp, I(25))))
    IN  Div(gypsum_base, Sqrt(scale_eff))

gypsum_score(temp, scale_eff) ==
    LET gypsum_base ==
            Mul(solid_ratios.Gypsum, Add(I(1), Mul(Q(1, 100), Sub(temp, I(25)))))
    IN  Div(gypsum_base, Sqrt(scale_eff))

salt_waste_score(rain, production_intensity) ==
    LET salt_base ==
            Mul(solid_ratios.Industrial_Salt, Add(I(1), Mul(Q(2, 100), rain)))
        intensity_factor ==
            Add(I(1), Mul(Q(1, 10), Sub(production_intensity, Q(8, 10))))
    IN  Mul(salt_base, intensity_factor)

\* sum_scores with the last category left out of the sum
sum_scores_without_salt(solid_scores) ==
    Add(Add(I(0), solid_scores.Limestone), solid_scores.Gypsum)

\* sum(solid_scores.values())
sum_scores(solid_scores) ==
    Add(Add(Add(I(0), solid_scores.Limestone), solid_scores.Gypsum),
        solid_scores.Industrial_Salt)

\* total_solid_waste * fraction, fraction = score / total_solid_score
solid_mass(total_solid_waste, score, total_solid_score) ==
    LET fraction == Div(score, total_solid_score)
    IN  Mul(total_solid_waste, fraction)

weather_efficiency(temp, rain) ==
    Mul(Add(I(1), Mul(Q(1, 100), Sub(temp, I(25)))),
        Div(I(1), Add(I(1), Mul(Q(2, 1000), rain))))

\* bittern_volume from the production alone, whatever the capacity
bittern_volume_of_production(production_vol, production_capacity, weather_eff) ==
    Mul(Mul(production_vol, Add(base_bittern_ratio, intensity_bittern_ratio)),
        weather_eff)

bittern_volume(production_vol, production_capacity, weather_eff) ==
    LET base_bittern ==
            Mul(Mul(production_capacity, base_bittern_ratio), weather_eff)
        intensity_bittern ==
            Mul(Mul(production_vol, intensity_bittern_ratio), weather_eff)
    IN  Add(base_bittern, intensity_bittern)

epsom_yield(bittern_vol, wind, humidity) ==
    LET base_epsom_yield == Mul(bittern_vol, recovery_factors.Epsom_Salt)
        wind_boost == Add(I(1), Mul(Q(2, 100), Div(wind, I(20))))
        humidity_reduction ==
            PyMax(Q(4, 10),
                  Sub(I(1), Mul(Q(1, 100), Div(Sub(humidity, I(50)), I(50)))))
    IN  Mul(Mul(base_epsom_yield, wind_boost), humidity_reduction)

potash_yield(bittern_vol, temp, rain) ==
    LET temp_evaporation_factor ==
            Add(I(1), Mul(Q(2, 100), PyMax(I(0), Sub(temp, I(25)))))
        rain_destruction_factor == Div(I(1), Add(I(1), Mul(Q(8, 1000), rain)))
    IN  Mul(Mul(Mul(bittern_vol, recovery_factors.Potash),
                temp_evaporation_factor), rain_destruction_factor)

mag_oil_vol(bittern_vol, humidity) ==
    LET base_mag_oil == Mul(bittern_vol, recovery_factors.Magnesium_Oil)
        humidity_boost == Add(I(1), Mul(Q(15, 1000), Div(humidity, I(100))))
    IN  Mul(base_mag_oil, humidity_boost)

\* max(0, x), the last step of each byproduct
clamp(x) == PyMax(I(0), x)

\* The local variables of calculate_composition that later lines reuse.
composition_locals(row) ==
    LET production_capacity == row_capacity(row)
        production_intensity == Div(row.production_volume, production_capacity)
        scale_eff == scale_efficiency(production_capacity)
        solid_scores ==
            [Limestone |-> limestone_score(scale_eff),
             Gypsum |-> gypsum_score(row.temperature_mean, scale_eff),
             Industrial_Salt |-> salt_waste_score(row.rain_sum, production_intensity)]
        weather_eff == weather_efficiency(row.temperature_mean, row.rain_sum)
    IN  [production_capacity |-> production_capacity,
         scale_eff |-> scale_eff,
         solid_scores |-> solid_scores,
         total_solid_score |-> sum_scores(solid_scores),
         bittern_vol |-> bittern_volume(row.production_volume, production_capacity,
                                        weather_eff)]

\* the composition dict with the bittern taken as a share of the predicted
\* waste, like the solids
composition_dict_bittern_of_waste(row, v) ==
    [Solid_Waste_Limestone_kg |->
        solid_mass(row.predicted_waste_kg, v.solid_scores.Limestone,
                   v.total_solid_score),
     Solid_Waste_Gypsum_kg |->
        solid_mass(row.predicted_waste_kg, v.solid_scores.Gypsum,
                   v.total_solid_score),
     Solid_Waste_Industrial_Salt_kg |->
        solid_mass(row.predicted_waste_kg, v.solid_scores.Industrial_Salt,
                   v.total_solid_score),
     Liquid_Waste_Bittern_Liters |-> Mul(Q(3, 10), row.predicted_waste_kg),
     Potential_Epsom_Salt_kg |->
        clamp(epsom_yield(Mul(Q(3, 10), row.predicted_waste_kg),
                          row.wind_speed_mean, row.humidity_mean)),
     Potential_Potash_kg |->
        clamp(potash_yield(Mul(Q(3, 10), row.predicted_waste_kg),
                           row.temperature_mean, row.rain_sum)),
     Potential_Magnesium_Oil_Liters |->
        clamp(mag_oil_vol(Mul(Q(3, 10), row.predicted_waste_kg),
                          row.humidity_mean))]

\* The composition dict, from the row and the local variables.
composition_dict(row, v) ==
    [Solid_Waste_Limestone_kg |->
        solid_mass(row.predicted_waste_kg, v.solid_scores.Limestone,
                   v.total_solid_score),
     Solid_Waste_Gypsum_kg |->
        solid_mass(row.predicted_waste_kg, v.solid_scores.Gypsum,
                   v.total_solid_score),
     Solid_Waste_Industrial_Salt_kg |->
        solid_mass(row.predicted_waste_kg, v.solid_scores.Industrial_Salt,
                   v.total_solid_score),
     Liquid_Waste_Bittern_Liters |-> v.bittern_vol,
     Potential_Epsom_Salt_kg |->
        clamp(epsom_yield(v.bittern_vol, row.wind_speed_mean, row.humidity_mean)),
     Potential_Potash_kg |->
        clamp(potash_yield(v.bittern_vol, row.temperature_mean, row.rain_sum)),
     Potential_Magnesium_Oil_Liters |->
        clamp(mag_oil_vol(v.bittern_vol, row.humidity_mean))]

\* The divisors calculate_composition uses, in the order it uses them.
composition_divisors(row, v) ==
    <<v.production_capacity, v.scale_eff, Sqrt(v.scale_eff), v.total_solid_score,
      Add(I(1), Mul(Q(2, 1000), row.rain_sum)),
      Add(I(1), Mul(Q(8, 1000), row.rain_sum))>>

\* One run of calculate_composition on IEEE values (numpy float64, where a
\* division by zero gives inf or nan): the composition it returns, its solid
\* scores and its divisors.  (The one-element sets make TLC compute the
\* local variables once.)
composition_run(row) ==
    CHOOSE run \in
        {[composition |-> composition_dict(row, v),
          solid_scores |-> v.solid_scores,
          divisors |-> composition_divisors(row, v)] :
            v \in {composition_locals(row)}} : TRUE

\* calculate_composition with a hidden input: the masses follow the
\* predictor's calibration factor of the moment
calculate_composition_by_factor(row, numpy) ==
    CHOOSE returned \in
        {IF ~numpy /\ \E i \in DOMAIN run.divisors : IsZero(run.divisors[i])
         THEN [raised |-> "ZeroDivisionError"]
         ELSE [raised |-> ""] @@ run.composition :
            run \in {composition_run(
                        [row EXCEPT !.predicted_waste_kg =
                                        Mul(@, calibration_factor)])}} : TRUE

\* calculate_composition(row): on numpy float64 it always returns; on Python
\* floats a zero divisor raises ZeroDivisionError
calculate_composition(row, numpy) ==
    CHOOSE returned \in
        {IF ~numpy /\ \E i \in DOMAIN run.divisors : IsZero(run.divisors[i])
         THEN [raised |-> "ZeroDivisionError"]
         ELSE [raised |-> ""] @@ run.composition :
            run \in {composition_run(row)}} : TRUE

-----------------------------------------------------------------------------
(* digital_twin.py: WasteDistributor *)

\* the rows of a table (a sequence of records) whose Year is year
RECURSIVE rows_of_year(_, _)
rows_of_year(df, year) ==
    IF df = <<>> THEN <<>>
    ELSE IF Head(df).Year = year
         THEN <<Head(df)>> \o rows_of_year(Tail(df), year)
    ELSE rows_of_year(Tail(df), year)

\* df['Year'].unique()
years_of(df) == {df[i].Year : i \in DOMAIN df}

\* common_years without the intersection: every year of the waste table
common_years_all_waste_years(yearly_waste_df, monthly_features_df) ==
    years_of(yearly_waste_df)

common_years(yearly_waste_df, monthly_features_df) ==
    years_of(yearly_waste_df) \cap years_of(monthly_features_df)

\* calculate_waste_potential, for one row of the table
calculate_waste_potential(pw, rw, tw, row) ==
    LET rain_norm == Div(row.rain_sum, I(500))
        temp_norm == Div(row.temperature_mean, I(35))
        base_potential == Pow(row.production_volume, pw)
        weather_modifier ==
            Add(Add(I(1), Mul(rw, rain_norm)), Mul(tw, temp_norm))
    IN  Mul(base_potential, weather_modifier)

\* the largest value of a column of a table
RECURSIVE column_max(_, _)
column_max(df, column) ==
    IF Len(df) = 1 THEN df[1][column]
    ELSE PyMax(df[1][column], column_max(Tail(df), column))

\* the scores of a table with rain and temperature normalised by the
\* table's own maxima
potential_scores_by_table_max(pw, rw, tw, df) ==
    [i \in DOMAIN df |->
        LET rain_norm == Div(df[i].rain_sum, column_max(df, "rain_sum"))
            temp_norm == Div(df[i].temperature_mean,
                             column_max(df, "temperature_mean"))
            base_potential == Pow(df[i].production_volume, pw)
            weather_modifier ==
                Add(Add(I(1), Mul(rw, rain_norm)), Mul(tw, temp_norm))
        IN  Mul(base_potential, weather_modifier)]

\* calculate_waste_potential(df): the Series of the scores of the rows
potential_scores(pw, rw, tw, df) ==
    [i \in DOMAIN df |-> calculate_waste_potential(pw, rw, tw, df[i])]

\* scores.sum() over the rows of one table
RECURSIVE potential_sum(_, _, _, _)
potential_sum(pw, rw, tw, df) ==
    IF df = <<>> THEN I(0)
    ELSE Add(calculate_waste_potential(pw, rw, tw, Head(df)),
             potential_sum(pw, rw, tw, Tail(df)))

\* yearly_waste_df[yearly_waste_df['Year'] == year]['Waste_KG'].values[0]
actual_of_year(yearly_waste_df, year) ==
    Head(rows_of_year(yearly_waste_df, year)).Waste_KG

\* the two accumulators of calibrate's loop over the common years
RECURSIVE total_actual_waste(_, _)
total_actual_waste(yearly_waste_df, years) ==
    IF years = {} THEN I(0)
    ELSE LET year == CHOOSE y \in years : TRUE
         IN  Add(actual_of_year(yearly_waste_df, year),
                 total_actual_waste(yearly_waste_df, years \ {year}))

RECURSIVE total_calc_score(_, _, _, _, _)
total_calc_score(pw, rw, tw, monthly_features_df, years) ==
    IF years = {} THEN I(0)
    ELSE LET year == CHOOSE y \in years : TRUE
         IN  Add(potential_sum(pw, rw, tw, rows_of_year(monthly_features_df, year)),
                 total_calc_score(pw, rw, tw, monthly_features_df, years \ {year}))

\* the calibration_factor that calibrate leaves behind, given the one before
calibrate(pw, rw, tw, factor, yearly_waste_df, monthly_features_df) ==
    LET years == common_years(yearly_waste_df, monthly_features_df)
        actual == total_actual_waste(yearly_waste_df, years)
        score == total_calc_score(pw, rw, tw, monthly_features_df, years)
    IN  IF Lt(I(0), score) THEN Div(actual, score) ELSE factor

None == [none |-> TRUE]

\* predict_score with the temperature normalised by the rain reference
predict_score_temp_by_500(pw, rw, tw, production, rain, temp) ==
    LET rain_norm == Div(rain, I(500))
        temp_norm == Div(temp, I(500))
        base_potential == Pow(production, pw)
        weather_modifier ==
            Add(Add(I(1), Mul(rw, rain_norm)), Mul(tw, temp_norm))
    IN  Mul(base_potential, weather_modifier)

\* the score predict_one_month computes inline
predict_score(pw, rw, tw, production, rain, temp) ==
    LET rain_norm == Div(rain, I(500))
        temp_norm == Div(temp, I(35))
        base_potential == Pow(production, pw)
        weather_modifier ==
            Add(Add(I(1), Mul(rw, rain_norm)), Mul(tw, temp_norm))
    IN  Mul(base_potential, weather_modifier)

\* production_capacity or (production / 0.8)
capacity_or_estimate(production, production_capacity) ==
    IF production_capacity = None \/ IsZero(production_capacity)
    THEN Div(production, Q(8, 10))
    ELSE production_capacity

\* predict_row with the sentinel factor 1.0 whatever calibrate left
predict_row_uncalibrated(pw, rw, tw, factor, production, rain, temp, humidity, wind, production_capacity) ==
    [predicted_waste_kg |-> Mul(predict_score(pw, rw, tw, production, rain, temp), I(1)),
     production_volume |-> production,
     production_capacity |-> capacity_or_estimate(production, production_capacity),
     rain_sum |-> rain,
     temperature_mean |-> temp,
     humidity_mean |-> humidity,
     wind_speed_mean |-> wind]

predict_row(pw, rw, tw, factor, production, rain, temp, humidity, wind, production_capacity) ==
    [predicted_waste_kg |-> Mul(predict_score(pw, rw, tw, production, rain, temp), factor),
     production_volume |-> production,
     production_capacity |-> capacity_or_estimate(production, production_capacity),
     rain_sum |-> rain,
     temperature_mean |-> temp,
     humidity_mean |-> humidity,
     wind_speed_mean |-> wind]

\* predict_one_month on Python floats: the result dict, or the exception
predict_one_month(pw, rw, tw, factor, production, rain, temp, humidity, wind, production_capacity) ==
    CHOOSE returned \in
        {IF composition.raised # "" THEN composition
         ELSE [Total_Waste_kg |-> row.predicted_waste_kg] @@ composition :
            row \in {predict_row(pw, rw, tw, factor, production, rain, temp,
                                 humidity, wind, production_capacity)},
            composition \in
                {calculate_composition(
                    predict_row(pw, rw, tw, factor, production, rain, temp,
                                humidity, wind, production_capacity), FALSE)}} : TRUE

\* waste_fraction with the uniform fallback fixed at twelve months
waste_fraction_twelfth(waste_potential, total_score, n_rows) ==
    IF IsZero(total_score) THEN Div(I(1), I(12))
    ELSE Div(waste_potential, total_score)

\* waste_potential / total_score, or 1 / len(year_features) when the score
\* sum is zero
waste_fraction(waste_potential, total_score, n_rows) ==
    IF IsZero(total_score) THEN Div(I(1), I(n_rows))
    ELSE Div(waste_potential, total_score)

\* a month's row with the columns distribute adds before the composition
distribute_row(pw, rw, tw, row, total_waste_kg, total_waste_bags, total_score, n_rows) ==
    LET potential == calculate_waste_potential(pw, rw, tw, row)
        fraction == waste_fraction(potential, total_score, n_rows)
    IN  [Year |-> row.Year,
         production_volume |-> row.production_volume,
         rain_sum |-> row.rain_sum,
         temperature_mean |-> row.temperature_mean,
         humidity_mean |-> row.humidity_mean,
         wind_speed_mean |-> row.wind_speed_mean,
         waste_potential |-> potential,
         production_capacity |-> Div(row.production_volume, Q(8, 10)),
         waste_fraction |-> fraction,
         predicted_waste_kg |-> Mul(total_waste_kg, fraction),
         predicted_waste_bags |-> Mul(total_waste_bags, fraction)]

\* one year of distribute: the year's rows with the new columns and the
\* composition of each, computed on numpy values
distribute_year(pw, rw, tw, yearly_waste_df, monthly_features_df, year) ==
    CHOOSE rows \in
        {[i \in DOMAIN year_features |->
            CHOOSE out \in
                {row @@ calculate_composition(row, TRUE) :
                    row \in {distribute_row(pw, rw, tw, year_features[i],
                                            year_waste_row.Waste_KG,
                                            year_waste_row.Waste_Bags,
                                            total_score, Len(year_features))}} : TRUE] :
            year_waste_row \in {Head(rows_of_year(yearly_waste_df, year))},
            year_features \in {rows_of_year(monthly_features_df, year)},
            total_score \in
                {potential_sum(pw, rw, tw, rows_of_year(monthly_features_df, year))}} : TRUE

\* pd.concat(results), the years in the order the loop visited them
RECURSIVE distribute(_, _, _, _, _, _)
distribute(pw, rw, tw, yearly_waste_df, monthly_features_df, order) ==
    IF order = <<>> THEN <<>>
    ELSE distribute_year(pw, rw, tw, yearly_waste_df, monthly_features_df, Head(order))
            \o distribute(pw, rw, tw, yearly_waste_df, monthly_features_df, Tail(order))

-----------------------------------------------------------------------------
(* constraints.py: FeatureConstraints *)

feature_order ==
    <<"temperature_c", "humidity_pct", "rainfall_mm", "wind_speed_kmh",
      "production_kg", "month">>

\* the class attributes of FeatureConstraints as the class statement leaves
\* them; a (min, max) pair is <<min, max>>, and the seasons are in the order
\* of the dict
FeatureConstraints ==
    [BOUNDS |->
        [temperature_c |-> <<I(23), I(35)>>,
         humidity_pct |-> <<I(45), I(98)>>,
         rainfall_mm |-> <<I(0), I(500)>>,
         wind_speed_kmh |-> <<I(2), I(30)>>,
         production_kg |-> <<I(500000), I(10000000)>>,
         month |-> <<I(1), I(12)>>],
     SEASONAL_PATTERNS |->
        <<[name |-> "dry", months |-> <<12, 1, 2, 3>>,
           temperature_c |-> <<I(25), I(32)>>, humidity_pct |-> <<I(50), I(85)>>,
           rainfall_mm |-> <<I(20), I(160)>>, wind_speed_kmh |-> <<I(8), I(20)>>],
          [name |-> "inter_1", months |-> <<4, 5>>,
           temperature_c |-> <<I(27), I(33)>>, humidity_pct |-> <<I(70), I(90)>>,
           rainfall_mm |-> <<I(100), I(420)>>, wind_speed_kmh |-> <<I(12), I(27)>>],
          [name |-> "monsoon_sw", months |-> <<6, 7, 8, 9>>,
           temperature_c |-> <<I(26), I(32)>>, humidity_pct |-> <<I(70), I(90)>>,
           rainfall_mm |-> <<I(80), I(220)>>, wind_speed_kmh |-> <<I(15), I(26)>>],
          [name |-> "inter_2", months |-> <<10, 11>>,
           temperature_c |-> <<I(25), I(30)>>, humidity_pct |-> <<I(80), I(98)>>,
           rainfall_mm |-> <<I(200), I(500)>>, wind_speed_kmh |-> <<I(8), I(18)>>]>>]

\* cls.BOUNDS and cls.SEASONAL_PATTERNS: the tables as they are now
BOUNDS == constraints.BOUNDS

SEASONAL_PATTERNS == constraints.SEASONAL_PATTERNS

Range(seq) == {seq[i] : i \in DOMAIN seq}

\* get_bounds: the dict, or the (lower_bounds, upper_bounds) lists
get_bounds(as_tuple) ==
    IF as_tuple THEN BOUNDS
    ELSE <<[i \in DOMAIN feature_order |-> BOUNDS[feature_order[i]][1]],
           [i \in DOMAIN feature_order |-> BOUNDS[feature_order[i]][2]]>>

\* a season lookup that stops after the first season of the table
season_of_first_only(patterns, month) ==
    IF patterns = <<>> THEN None
    ELSE IF month \in Range(Head(patterns).months) THEN Head(patterns)
    ELSE None

\* the loop of get_seasonal_bounds: the first season whose months hold month
RECURSIVE season_of(_, _)
season_of(patterns, month) ==
    IF patterns = <<>> THEN None
    ELSE IF month \in Range(Head(patterns).months) THEN Head(patterns)
    ELSE season_of(Tail(patterns), month)

\* get_seasonal_bounds with the season's humidity range widened to 100 %
get_seasonal_bounds_humid(month) ==
    LET season == season_of(SEASONAL_PATTERNS, month)
    IN  IF season = None THEN BOUNDS
        ELSE [temperature_c |-> season.temperature_c,
              humidity_pct |-> <<season.humidity_pct[1], I(100)>>,
              rainfall_mm |-> season.rainfall_mm,
              wind_speed_kmh |-> season.wind_speed_kmh,
              production_kg |-> BOUNDS.production_kg,
              month |-> <<I(month), I(month)>>]

get_seasonal_bounds(month) ==
    LET season == season_of(SEASONAL_PATTERNS, month)
    IN  IF season = None THEN BOUNDS
        ELSE [temperature_c |-> season.temperature_c,
              humidity_pct |-> season.humidity_pct,
              rainfall_mm |-> season.rainfall_mm,
              wind_speed_kmh |-> season.wind_speed_kmh,
              production_kg |-> BOUNDS.production_kg,
              month |-> <<I(month), I(month)>>]

\* a features dict is the sequence of its items, in the order of the dict; a
\* value is a float or a Python int k, written PyInt(k)
PyInt(k) == [int |-> k]

\* isinstance(value, int)
isinstance_int(value) == DOMAIN value = {"int"}

\* the float an int is compared as
as_float(value) == IF isinstance_int(value) THEN I(value.int) ELSE value

\* value < min_val or value > max_val, for a feature that has bounds
outside_bounds(item) ==
    /\ item.feature \in DOMAIN BOUNDS
    /\ \/ Lt(as_float(item.value), BOUNDS[item.feature][1])
       \/ Lt(BOUNDS[item.feature][2], as_float(item.value))

\* validate_features: (is_valid, message); the message keeps the text of the
\* f-string and the feature and value it is formatted with
validate_features(features) ==
    IF \E i \in DOMAIN features : outside_bounds(features[i])
    THEN LET i == CHOOSE j \in DOMAIN features :
                      /\ outside_bounds(features[j])
                      /\ \A k \in 1..(j - 1) : ~outside_bounds(features[k])
         IN  <<FALSE, [text |-> "outside bounds",
                       feature |-> features[i].feature,
                       value |-> features[i].value]>>
    ELSE IF \E i \in DOMAIN features :
                /\ features[i].feature = "month"
                /\ ~(isinstance_int(features[i].value)
                        /\ features[i].value.int \in 1..12)
    THEN LET i == CHOOSE j \in DOMAIN features : features[j].feature = "month"
         IN  <<FALSE, [text |-> "month must be integer 1-12",
                       feature |-> "month",
                       value |-> features[i].value]>>
    ELSE <<TRUE, [text |-> "Valid"]>>

-----------------------------------------------------------------------------
(* optimizer.py: WasteOptimizer *)

\* a feature vector x is a tuple in the order of feature_order
waste_categories ==
    <<"total_waste_kg", "salt_dust_kg", "brine_runoff_kg",
      "organic_matter_kg", "packaging_waste_kg", "other_solids_kg">>

\* self.model.predict(self.scaler.transform(self._prepare_features(x)))[0]:
\* the loaded artifacts are not part of the repository; a regressor m stands
\* for them, predicting for each category a share of the production that
\* moves with the temperature: production * (base + per_degree*(temp-25))/100
predictions_kg(m, x) ==
    [i \in DOMAIN waste_categories |->
        Mul(x[5], Div(Add(m.base[i], Mul(m.per_degree, Sub(x[1], I(25)))),
                      I(100)))]

\* predict_waste: kilograms to percentages of production_kg (numpy floats)
predict_waste(m, x) ==
    LET kg == predictions_kg(m, x)
    IN  [category \in Range(waste_categories) |->
            LET i == CHOOSE j \in DOMAIN waste_categories :
                         waste_categories[j] = category
            IN  Mul(Div(kg[i], x[5]), I(100))]

objective_minimize_total(m, x) == predict_waste(m, x).total_waste_kg

\* dict.get(key, default)
dict_get(dict, key, default) ==
    IF key \in DOMAIN dict THEN dict[key] ELSE default

\* the penalty of one category, counting only a prediction above the target
category_error_overshoot(predicted, target, weights, category) ==
    LET pred_val == dict_get(predicted, category, I(0))
        weight == dict_get(weights, category, I(1))
        deviation == Sub(pred_val, target[category])
    IN  IF Lt(I(0), deviation) THEN Mul(weight, Mul(deviation, deviation))
        ELSE I(0)

\* the body of the loop of _objective_target_waste: weight * deviation ** 2
category_error(predicted, target, weights, category) ==
    LET pred_val == dict_get(predicted, category, I(0))
        weight == dict_get(weights, category, I(1))
        deviation == Sub(pred_val, target[category])
    IN  Mul(weight, Mul(deviation, deviation))

\* the loop over target.items()
RECURSIVE target_error(_, _, _, _)
target_error(predicted, target, weights, categories) ==
    IF categories = {} THEN I(0)
    ELSE LET category == CHOOSE c \in categories : TRUE
         IN  Add(target_error(predicted, target, weights, categories \ {category}),
                 category_error(predicted, target, weights, category))

objective_target_waste(m, x, target, weights) ==
    target_error(predict_waste(m, x), target,
                 IF weights = None THEN [k \in DOMAIN target |-> I(1)] ELSE weights,
                 DOMAIN target)

\* bounds_dict that takes the global bounds whatever the flag
bounds_dict_always_global(month, production_kg, use_seasonal_constraints) ==
    LET chosen == get_bounds(TRUE)
        fixed == IF production_kg # None
                 THEN [chosen EXCEPT !.production_kg = <<production_kg, production_kg>>]
                 ELSE chosen
    IN  [fixed EXCEPT !.month = <<I(month), I(month)>>]

\* bounds_dict without the line that fixes the month
bounds_dict_month_free(month, production_kg, use_seasonal_constraints) ==
    LET chosen == IF use_seasonal_constraints THEN get_seasonal_bounds(month)
                  ELSE get_bounds(TRUE)
    IN  IF production_kg # None
        THEN [chosen EXCEPT !.production_kg = <<production_kg, production_kg>>]
        ELSE chosen

\* bounds_dict of both optimize methods: seasonal or global bounds, the
\* production fixed when one is given, the month fixed
bounds_dict(month, production_kg, use_seasonal_constraints) ==
    LET chosen == IF use_seasonal_constraints THEN get_seasonal_bounds(month)
                  ELSE get_bounds(TRUE)
        fixed == IF production_kg # None
                 THEN [chosen EXCEPT !.production_kg = <<production_kg, production_kg>>]
                 ELSE chosen
    IN  [fixed EXCEPT !.month = <<I(month), I(month)>>]

\* a dict that is handed out is its items and whether it is the object
\* FeatureConstraints.BOUNDS itself, so that a write to it changes the table.
\* `return cls.BOUNDS`: no copy, the table itself
dict_copy_shared(table) == [items |-> table, is_table |-> TRUE]

\* cls.BOUNDS.copy(): a new dict with the items of the table
dict_copy(table) == [items |-> table, is_table |-> FALSE]

\* the dict object that bounds_dict is in a run: the dict get_seasonal_bounds
\* builds for a month that has a season, otherwise a copy of the table
bounds_object(month, use_seasonal_constraints) ==
    IF use_seasonal_constraints /\ season_of(SEASONAL_PATTERNS, month) # None
    THEN [items |-> get_seasonal_bounds(month), is_table |-> FALSE]
    ELSE dict_copy(BOUNDS)

\* the class tables after bounds_dict['production_kg'] = ... and
\* bounds_dict['month'] = ... of a run: the writes go to the run's own dict
constraints_after_run(month, production_kg, use_seasonal_constraints) ==
    IF bounds_object(month, use_seasonal_constraints).is_table
    THEN [constraints EXCEPT
             !.BOUNDS = bounds_dict(month, production_kg,
                                    use_seasonal_constraints)]
    ELSE constraints

\* bounds = [bounds_dict[f] for f in self.feature_order]
bounds_list(dict) == [i \in DOMAIN feature_order |-> dict[feature_order[i]]]

\* the point of the box at the fraction t of every interval
box_point(bounds, t) ==
    [i \in DOMAIN bounds |->
        Add(bounds[i][1], Mul(t, Sub(bounds[i][2], bounds[i][1])))]

\* x0 of optimize_minimize_waste: the midpoints of the bounds
x0_midpoints(bounds) ==
    [i \in DOMAIN bounds |-> Div(Add(bounds[i][1], bounds[i][2]), I(2))]

\* int(round(v)) of a finite float: to the nearest integer, ties to even
int_round(v) ==
    LET floor == IF v.n >= 0 THEN v.n \div v.d ELSE -((-v.n + v.d - 1) \div v.d)
        twice == 2 * (v.n - floor * v.d)
    IN  IF twice < v.d THEN floor
        ELSE IF twice > v.d THEN floor + 1
        ELSE IF floor % 2 = 0 THEN floor ELSE floor + 1

\* scipy is not part of the repository.  Its searches are taken by their
\* interface: the point returned lies in the box of bounds handed over, and
\* the same call on the same installation returns the same result.  An
\* installation `how` fixes where a search ends (corner -1: the lower corner,
\* 1: the upper corner, 0: the middle for the global search, the starting
\* point for a local one) and whether each kind of search reports success;
\* a search that does not converge has used its maxiter iterations.
status_message(success) ==
    IF success THEN "Optimization terminated successfully"
    ELSE "Maximum number of iterations has been exceeded"

\* scipy.optimize.differential_evolution(objective, bounds=..., maxiter=...)
differential_evolution(how, bounds, maxiter) ==
    [x |-> box_point(bounds, Q(how.corner + 1, 2)),
     success |-> how.global_success,
     message |-> status_message(how.global_success),
     nit |-> IF how.global_success THEN 1 ELSE maxiter]

\* scipy.optimize.minimize(objective, x0=..., method=..., bounds=...)
minimize(how, x0, bounds, maxiter) ==
    [x |-> IF how.corner = 0 THEN x0 ELSE box_point(bounds, Q(how.corner + 1, 2)),
     success |-> how.local_success,
     message |-> status_message(how.local_success),
     nit |-> IF how.local_success THEN 1 ELSE maxiter]

\* the record of one call to scipy
scipy_call(function, method, bounds, x0, maxiter, seed) ==
    [function |-> function, method |-> method, bounds |-> bounds, x0 |-> x0,
     maxiter |-> maxiter, seed |-> seed]

\* optimal_features: the point as a dict, the month rounded to an int
optimal_features_of(optimal_x) ==
    [f \in Range(feature_order) |->
        LET i == CHOOSE j \in DOMAIN feature_order : feature_order[j] = f
        IN  IF f = "month" THEN int_round(optimal_x[i]) ELSE optimal_x[i]]

\* OptimizationResult that reports success whatever the solver said
OptimizationResult_always_success(m, found, fun, target, method) ==
    [success |-> TRUE,
     optimal_features |-> optimal_features_of(found.x),
     predicted_waste |-> predict_waste(m, found.x),
     target_waste |-> target,
     objective_value |-> fun,
     iterations |-> found.nit,
     method |-> method,
     message |-> "Success"]

\* OptimizationResult whose objective_value is always the total-waste
\* percentage at the optimum, in target mode too
OptimizationResult_total_objective(m, found, fun, target, method) ==
    [success |-> found.success,
     optimal_features |-> optimal_features_of(found.x),
     predicted_waste |-> predict_waste(m, found.x),
     target_waste |-> target,
     objective_value |-> objective_minimize_total(m, found.x),
     iterations |-> found.nit,
     method |-> method,
     message |-> found.message]

\* OptimizationResult(...) from the kept solver result
OptimizationResult(m, found, fun, target, method) ==
    [success |-> found.success,
     optimal_features |-> optimal_features_of(found.x),
     predicted_waste |-> predict_waste(m, found.x),
     target_waste |-> target,
     objective_value |-> fun,
     iterations |-> found.nit,
     method |-> method,
     message |-> found.message]

\* the search of optimize_minimize_waste over a box
minimize_search(how, method, bounds) ==
    IF method = "differential_evolution"
    THEN differential_evolution(how, bounds, 1000)
    ELSE minimize(how, x0_midpoints(bounds), bounds, 1000)

\* optimize_minimize_waste: the result and the call made to scipy
optimize_minimize_waste(m, how, month, production_kg, method, use_seasonal_constraints) ==
    CHOOSE returned \in
        {[result |-> OptimizationResult(m, found, objective_minimize_total(m, found.x),
                                        <<>>, method),
          calls |-> <<IF method = "differential_evolution"
                      THEN scipy_call("differential_evolution", None, bounds, None, 1000, 42)
                      ELSE scipy_call("minimize", method, bounds, x0_midpoints(bounds),
                                      1000, None)>>] :
            bounds \in {bounds_list(bounds_dict(month, production_kg,
                                                use_seasonal_constraints))},
            found \in {minimize_search(how, method,
                           bounds_list(bounds_dict(month, production_kg,
                                                   use_seasonal_constraints)))}} : TRUE

\* a solver result with the objective value scipy reports for its point
with_fun(m, found, target, weights) ==
    found @@ [fun |-> objective_target_waste(m, found.x, target, weights)]

\* the refinement loop with `<=`: a local result that only ties is kept too
RECURSIVE refine_on_ties(_, _, _, _, _, _, _)
refine_on_ties(m, how, target, weights, bounds, starts, best_result) ==
    IF starts = <<>> THEN best_result
    ELSE refine_on_ties(m, how, target, weights, bounds, Tail(starts),
                CHOOSE better \in
                    {IF Le(local_result.fun, best_result.fun)
                     THEN local_result ELSE best_result :
                        local_result \in
                            {with_fun(m, minimize(how, Head(starts), bounds, 1000),
                                      target, weights)}} : TRUE)

\* the refinement loop of optimize_target_waste: starts are the points that
\* np.random.uniform drew; the better of best_result and each local result
RECURSIVE refine(_, _, _, _, _, _, _)
refine(m, how, target, weights, bounds, starts, best_result) ==
    IF starts = <<>> THEN best_result
    ELSE refine(m, how, target, weights, bounds, Tail(starts),
                CHOOSE better \in
                    {IF Lt(local_result.fun, best_result.fun)
                     THEN local_result ELSE best_result :
                        local_result \in
                            {with_fun(m, minimize(how, Head(starts), bounds, 1000),
                                      target, weights)}} : TRUE)

\* the searches of optimize_target_waste over a box: the global result and
\* the result that is kept
target_search(m, how, target, weights, bounds, starts) ==
    CHOOSE searched \in
        {[global |-> global,
          kept |-> IF Lt(Q(1, 10), global.fun)
                   THEN refine(m, how, target, weights, bounds, starts, global)
                   ELSE global] :
            global \in {with_fun(m, differential_evolution(how, bounds, 2000),
                                 target, weights)}} : TRUE

\* the calls of the refinement loop
refine_calls(bounds, starts) ==
    [i \in DOMAIN starts |->
        scipy_call("minimize", "SLSQP", bounds, starts[i], 1000, None)]

\* optimize_target_waste: the result and the calls made to scipy; starts are
\* the three points np.random.uniform draws when the loop runs
optimize_target_waste(m, how, target, month, production_kg, weights, method, use_seasonal_constraints, starts) ==
    CHOOSE returned \in
        {[result |-> OptimizationResult(m, searched.kept, searched.kept.fun,
                                        target, method),
          calls |-> <<scipy_call("differential_evolution", None, bounds, None, 2000, 42)>>
                    \o (IF Lt(Q(1, 10), searched.global.fun)
                        THEN refine_calls(bounds, starts) ELSE <<>>)] :
            bounds \in {bounds_list(bounds_dict(month, production_kg,
                                                use_seasonal_constraints))},
            searched \in
                {target_search(m, how, target, weights,
                               bounds_list(bounds_dict(month, production_kg,
                                                       use_seasonal_constraints)),
                               starts)}} : TRUE

-----------------------------------------------------------------------------
(* The inputs of the calibrated predictor *)

\* most rows of a monthly features table, most rows of a yearly waste table
MaxMonths == 2

MaxYearRows == 2

Years == {2023, 2024}

\* (production_weight, rain_weight, temp_weight): the constructor's defaults
\* and the setting of api.py and run_digital_twin_pipeline
WeightSettings == {<<1, I(0), I(0)>>, <<1, Q(1, 2), Q(1, 10)>>}

FeatureRows ==
    {[Year |-> y, production_volume |-> I(p), rain_sum |-> I(100),
      temperature_mean |-> I(35), humidity_mean |-> I(75),
      wind_speed_mean |-> I(15)] : y \in Years, p \in {0, 1000}}

SeqsUpTo(S, k) == UNION {[1..m -> S] : m \in 0..k}

MonthlyTables == SeqsUpTo(FeatureRows, MaxMonths)

\* the ratios of actual waste to score that the yearly tables are built with
KTrue == {I(3)}

\* yearly tables for a monthly table: each year's Waste_KG is 0, 600 or a
\* multiple in KTrue of the year's score sum; the bags weigh 50 kg
YearlyRows(pw, rw, tw, monthly) ==
    UNION {{[Year |-> y, Waste_KG |-> w, Waste_Bags |-> Div(w, I(50))] :
              w \in {I(0), I(600)} \cup
                    {Mul(k, potential_sum(pw, rw, tw, rows_of_year(monthly, y))) :
                        k \in KTrue}} : y \in Years}

YearlyTables(pw, rw, tw, monthly) ==
    SeqsUpTo(YearlyRows(pw, rw, tw, monthly), MaxYearRows)

\* the orders in which a loop over a set of years can visit them
Orders(S) == {o \in SeqsUpTo(S, Cardinality(S)) :
                 Len(o) = Cardinality(S) /\ {o[i] : i \in DOMAIN o} = S}

Floats(S) == {I(x) : x \in S}

-----------------------------------------------------------------------------
(* The predictor as a state machine: any sequence of calls *)

\* tables of at most one row, the yearly one about 2023, for the sequences
\* of calls
ShortMonthlyTables == {<<>>} \cup {<<r>> : r \in FeatureRows}

ShortYearlyTables(pw, rw, tw, monthly) ==
    {<<>>} \cup {<<r>> : r \in {y \in YearlyRows(pw, rw, tw, monthly) : y.Year = 2023}}

\* WasteDistributor.__init__
Constructed ==
    /\ \E w \in WeightSettings :
          /\ production_weight = w[1]
          /\ rain_weight = w[2]
          /\ temp_weight = w[3]
    /\ calibration_factor = I(1)
    /\ composition_model = WasteCompositionModel
    /\ constraints = FeatureConstraints
    /\ model = 0
    /\ solver = 0
    /\ scipy_calls = <<>>

Init ==
    /\ Constructed
    /\ op = "init"
    /\ args = <<>>
    /\ result = <<>>

Calibrate(yearly, monthly) ==
    /\ calibration_factor' =
           calibrate(production_weight, rain_weight, temp_weight,
                     calibration_factor, yearly, monthly)
    /\ op' = "calibrate"
    /\ args' = [yearly_waste_df |-> yearly, monthly_features_df |-> monthly]
    /\ result' = None
    /\ UNCHANGED <<production_weight, rain_weight, temp_weight,
                   composition_model, constraints, model, solver, scipy_calls>>

PredictOneMonth ==
    \E production \in Floats({0, 50000}), rain \in Floats({0, 100}),
       temp \in Floats({28, 35}), humidity \in Floats({75}), wind \in Floats({15}),
       production_capacity \in {None} \cup Floats({0, 50000}) :
        /\ op' = "predict_one_month"
        /\ args' = [production |-> production, rain |-> rain, temp |-> temp,
                    humidity |-> humidity, wind |-> wind,
                    production_capacity |-> production_capacity]
        /\ result' = predict_one_month(production_weight, rain_weight, temp_weight,
                                       calibration_factor, production, rain, temp,
                                       humidity, wind, production_capacity)
        /\ UNCHANGED <<production_weight, rain_weight, temp_weight,
                       calibration_factor, composition_model, constraints,
                       model, solver, scipy_calls>>

Distribute(yearly, monthly) ==
    \E order \in Orders(common_years(yearly, monthly)) :
        /\ op' = "distribute"
        /\ args' = [yearly_waste_df |-> yearly, monthly_features_df |-> monthly]
        /\ result' = distribute(production_weight, rain_weight, temp_weight,
                                yearly, monthly, order)
        /\ UNCHANGED <<production_weight, rain_weight, temp_weight,
                       calibration_factor, composition_model, constraints,
                       model, solver, scipy_calls>>

CalibrateCall ==
    \E monthly \in ShortMonthlyTables :
      \E yearly \in ShortYearlyTables(production_weight, rain_weight, temp_weight,
                                      monthly) :
        Calibrate(yearly, monthly)

DistributeCall ==
    \E monthly \in ShortMonthlyTables :
      \E yearly \in ShortYearlyTables(production_weight, rain_weight, temp_weight,
                                      monthly) :
        Distribute(yearly, monthly)

Next == CalibrateCall \/ PredictOneMonth \/ DistributeCall

Spec == Init /\ [][Next]_vars

-----------------------------------------------------------------------------
(* calibrate and distribute as functions of their tables: one call on a     *)
(* freshly constructed predictor, the tables drawn at the start             *)

InitTables ==
    /\ Constructed
    /\ op = "input"
    /\ \E monthly \in MonthlyTables :
         \E yearly \in YearlyTables(production_weight, rain_weight, temp_weight,
                                    monthly) :
            args = [yearly_waste_df |-> yearly, monthly_features_df |-> monthly]
    /\ result = <<>>

CalibrateTables ==
    /\ op = "input"
    /\ Calibrate(args.yearly_waste_df, args.monthly_features_df)

DistributeTables ==
    /\ op = "input"
    /\ Distribute(args.yearly_waste_df, args.monthly_features_df)

NextTables == CalibrateTables \/ DistributeTables

SpecTables == InitTables /\ [][NextTables]_vars

-----------------------------------------------------------------------------
(* calculate_composition as a function of its row: the row is drawn at the  *)
(* start, with Python floats or with numpy float64 values                   *)

\* records with and without the optional production_capacity
RowsOf(wastes, productions, capacities, rains, temps, humidities, winds) ==
    [predicted_waste_kg : wastes, production_volume : productions,
     rain_sum : rains, temperature_mean : temps, humidity_mean : humidities,
     wind_speed_mean : winds]
    \cup
    [predicted_waste_kg : wastes, production_volume : productions,
     production_capacity : capacities,
     rain_sum : rains, temperature_mean : temps, humidity_mean : humidities,
     wind_speed_mean : winds]

\* the corners of the global bounds, and records around the 50000 kg
\* reference scale that also leave the bounds
CompositionRows ==
    RowsOf({I(0), I(1000), Q(7, 2)}, Floats({500000, 10000000}),
           Floats({10000000, 12500000}), Floats({0, 500}), Floats({23, 35}),
           Floats({45, 98}), Floats({2, 30}))
    \cup
    RowsOf({I(0), I(1000)}, Floats({0, 40000, 50000}),
           Floats({0, 12500, 50000}), Floats({-50, 0, 100}), Floats({-100, 25, 28}),
           Floats({75}), Floats({15}))

InitComposition ==
    /\ Constructed
    /\ op = "input"
    /\ \E row \in CompositionRows, numpy \in BOOLEAN :
          args = [row |-> row, numpy |-> numpy]
    /\ result = <<>>

CalculateComposition ==
    /\ op = "input"
    /\ op' = "calculate_composition"
    /\ result' = calculate_composition(args.row, args.numpy)
    /\ UNCHANGED <<production_weight, rain_weight, temp_weight,
                   calibration_factor, composition_model, constraints, model,
                   solver, scipy_calls, args>>

NextComposition == CalculateComposition

SpecComposition == InitComposition /\ [][NextComposition]_vars

-----------------------------------------------------------------------------
(* The constraints and the optimizer as functions of their arguments: the   *)
(* loaded regressor, the scipy installation and the call are drawn at the   *)
(* start                                                                    *)

\* regressors: one whose shares do not move, one that moves with temperature
Models ==
    {[base |-> <<I(5), I(2), I(1), Q(1, 2), I(1), Q(1, 2)>>, per_degree |-> I(0)],
     [base |-> <<I(4), I(2), I(1), Q(1, 2), I(1), Q(1, 2)>>, per_degree |-> Q(1, 10)]}

Installations ==
    [corner : {-1, 0, 1}, global_success : BOOLEAN, local_success : BOOLEAN]

Months == 0..13

Methods == {"SLSQP", "trust-constr", "differential_evolution"}

Targets ==
    {[total_waste_kg |-> I(4)],
     [total_waste_kg |-> I(4), salt_dust_kg |-> I(2)],
     [total_waste_kg |-> I(5), moisture_kg |-> I(1)]}

Weights ==
    {None,
     [salt_dust_kg |-> I(3)],
     [total_waste_kg |-> I(2), brine_runoff_kg |-> I(7)],
     [total_waste_kg |-> I(0)]}

\* the fractions of the box at which np.random.uniform lands
UniformDraws == {I(0), Q(1, 2)}

\* most items of a features dict
MaxFeatures == 2

\* items of features dicts: values at, inside and outside the bounds, nan, a
\* month that is a float, and a feature that has no bounds
FeatureItems ==
    {[feature |-> "temperature_c", value |-> v] : v \in {I(35), I(36), NaN}}
    \cup
    {[feature |-> "month", value |-> v] :
        v \in {PyInt(0), PyInt(12), PyInt(13), I(7)}}
    \cup
    {[feature |-> "production_kg", value |-> PyInt(500000)],
     [feature |-> "salinity_ppt", value |-> NaN]}

\* dicts: no key twice
FeatureDicts ==
    {features \in SeqsUpTo(FeatureItems, MaxFeatures) :
        \A i, j \in DOMAIN features :
            features[i].feature = features[j].feature => i = j}

OptimizerCalls ==
    {[call |-> "get_seasonal_bounds", month |-> month] : month \in Months}
    \cup
    {[call |-> "validate_features", features |-> features] :
        features \in FeatureDicts}
    \cup
    {[call |-> "get_bounds", as_tuple |-> as_tuple] : as_tuple \in BOOLEAN}
    \cup
    {[call |-> "optimize_minimize_waste", month |-> month,
      production_kg |-> production_kg, method |-> method,
      use_seasonal_constraints |-> seasonal] :
        month \in Months, production_kg \in {None, I(0), I(3000000)},
        method \in Methods, seasonal \in BOOLEAN}
    \cup
    {[call |-> "optimize_target_waste", target_percentages |-> target,
      month |-> month, production_kg |-> production_kg, weights |-> weights,
      method |-> method, use_seasonal_constraints |-> seasonal] :
        target \in {[total_waste_kg |-> I(4)]},
        month \in {7, 13}, production_kg \in {None, I(3000000)},
        weights \in {None, [total_waste_kg |-> I(2), brine_runoff_kg |-> I(7)]},
        method \in {"SLSQP", "differential_evolution"}, seasonal \in BOOLEAN}
    \cup
    {[call |-> "objective_target_waste",
      x |-> <<temp, I(75), I(100), I(15), I(3000000), I(7)>>,
      target |-> target, weights |-> weights] :
        temp \in Floats({23, 25, 27}), target \in Targets, weights \in Weights}

\* WasteOptimizer.__init__ (no WasteDistributor is involved: its fields keep
\* the constructor's defaults)
InitOptimizer ==
    /\ production_weight = 1
    /\ rain_weight = I(0)
    /\ temp_weight = I(0)
    /\ calibration_factor = I(1)
    /\ composition_model = WasteCompositionModel
    /\ constraints = FeatureConstraints
    /\ model \in Models
    /\ solver \in Installations
    /\ scipy_calls = <<>>
    /\ op = "input"
    /\ args \in OptimizerCalls
    /\ result = <<>>

Returns(name, value, calls) ==
    /\ op' = name
    /\ result' = value
    /\ scipy_calls' = calls
    /\ UNCHANGED <<production_weight, rain_weight, temp_weight,
                   calibration_factor, composition_model, constraints, model,
                   solver, args>>

GetSeasonalBounds ==
    /\ op = "input"
    /\ args.call = "get_seasonal_bounds"
    /\ Returns("get_seasonal_bounds", get_seasonal_bounds(args.month), <<>>)

GetBounds ==
    /\ op = "input"
    /\ args.call = "get_bounds"
    /\ Returns("get_bounds", get_bounds(args.as_tuple), <<>>)

ValidateFeatures ==
    /\ op = "input"
    /\ args.call = "validate_features"
    /\ Returns("validate_features", validate_features(args.features), <<>>)

ObjectiveTargetWaste ==
    /\ op = "input"
    /\ args.call = "objective_target_waste"
    /\ Returns("objective_target_waste",
               objective_target_waste(model, args.x, args.target, args.weights),
               <<>>)

OptimizeMinimizeWaste ==
    /\ op = "input"
    /\ args.call = "optimize_minimize_waste"
    /\ \E returned \in
            {optimize_minimize_waste(model, solver, args.month, args.production_kg,
                                     args.method, args.use_seasonal_constraints)} :
          Returns("optimize_minimize_waste", returned.result, returned.calls)

OptimizeTargetWaste ==
    /\ op = "input"
    /\ args.call = "optimize_target_waste"
    /\ \E draws \in [1..3 -> UniformDraws] :
        \E bounds \in {bounds_list(bounds_dict(args.month, args.production_kg,
                                               args.use_seasonal_constraints))} :
          \E starts \in {[i \in 1..3 |-> box_point(bounds, draws[i])]} :
            \E returned \in
                {optimize_target_waste(
                    model, solver, args.target_percentages, args.month,
                    args.production_kg, args.weights, args.method,
                    args.use_seasonal_constraints, starts)} :
              Returns("optimize_target_waste", returned.result, returned.calls)

NextOptimizer ==
    \/ GetSeasonalBounds
    \/ GetBounds
    \/ ValidateFeatures
    \/ ObjectiveTargetWaste
    \/ OptimizeMinimizeWaste
    \/ OptimizeTargetWaste

SpecOptimizer == InitOptimizer /\ [][NextOptimizer]_vars

-----------------------------------------------------------------------------
(* The two optimize methods step by step: every call to scipy is a step of  *)
(* its own, and until the return `result` holds the method's local variable *)
(* result (best_result inside the loop), a scipy result                     *)

SearchCalls ==
    {call \in OptimizerCalls :
        /\ call.call \in {"optimize_minimize_waste", "optimize_target_waste"}
        /\ call.month = 7
        /\ call.production_kg = None
        /\ call.call = "optimize_target_waste" =>
              call.weights = None /\ call.method = "SLSQP"}

InitSearches ==
    /\ InitOptimizer
    /\ args \in SearchCalls

\* bounds of both optimize methods, from the arguments of the call
bounds_of_call(call) ==
    bounds_list(bounds_dict(call.month, call.production_kg,
                            call.use_seasonal_constraints))

\* a step inside a method: the position moves, the arguments stay
Steps(position, value, calls) ==
    /\ op' = position
    /\ result' = value
    /\ scipy_calls' = calls
    /\ UNCHANGED <<production_weight, rain_weight, temp_weight,
                   calibration_factor, composition_model, constraints, model,
                   solver, args>>

\* optimize_minimize_waste up to the end of its one search
MinimizeSearch ==
    /\ op = "input"
    /\ args.call = "optimize_minimize_waste"
    /\ \E bounds \in {bounds_of_call(args)} :
          Steps("searched",
                minimize_search(solver, args.method, bounds),
                <<IF args.method = "differential_evolution"
                  THEN scipy_call("differential_evolution", None, bounds, None,
                                  1000, 42)
                  ELSE scipy_call("minimize", args.method, bounds,
                                  x0_midpoints(bounds), 1000, None)>>)

\* optimize_minimize_waste from the search to the return
MinimizeReturn ==
    /\ op = "searched"
    /\ args.call = "optimize_minimize_waste"
    /\ Steps("optimize_minimize_waste",
             OptimizationResult(model, result,
                                objective_minimize_total(model, result.x),
                                <<>>, args.method),
             scipy_calls)

\* optimize_target_waste up to the end of the global search
GlobalSearch ==
    /\ op = "input"
    /\ args.call = "optimize_target_waste"
    /\ \E bounds \in {bounds_of_call(args)} :
          Steps("searched",
                with_fun(model, differential_evolution(solver, bounds, 2000),
                         args.target_percentages, args.weights),
                <<scipy_call("differential_evolution", None, bounds, None,
                             2000, 42)>>)

\* the loop that goes on after a fourth search, a retry
refinement_continues_with_retry(calls, best_result) ==
    /\ Len(calls) \in 1..4
    /\ Len(calls) = 1 => Lt(Q(1, 10), best_result.fun)

\* `if result.fun > 0.1` once after the global search, then `for _ in
\* range(3)`: whether one more local search follows the calls made so far
refinement_continues(calls, best_result) ==
    /\ Len(calls) \in 1..3
    /\ Len(calls) = 1 => Lt(Q(1, 10), best_result.fun)

\* one round of the loop: a start drawn by np.random.uniform, a local search,
\* the better result kept
LocalSearch ==
    /\ op = "searched"
    /\ args.call = "optimize_target_waste"
    /\ refinement_continues(scipy_calls, result)
    /\ \E draw \in UniformDraws :
        \E bounds \in {bounds_of_call(args)} :
          \E x0 \in {box_point(bounds, draw)} :
            \E local_result \in
                {with_fun(model, minimize(solver, x0, bounds, 1000),
                          args.target_percentages, args.weights)} :
              Steps("searched",
                    IF Lt(local_result.fun, result.fun)
                    THEN local_result ELSE result,
                    Append(scipy_calls,
                           scipy_call("minimize", "SLSQP", bounds, x0, 1000, None)))

\* optimize_target_waste from the end of the searches to the return
TargetReturn ==
    /\ op = "searched"
    /\ args.call = "optimize_target_waste"
    /\ ~refinement_continues(scipy_calls, result)
    /\ Steps("optimize_target_waste",
             OptimizationResult(model, result, result.fun,
                                args.target_percentages, args.method),
             scipy_calls)

NextSearches ==
    \/ MinimizeSearch
    \/ MinimizeReturn
    \/ GlobalSearch
    \/ LocalSearch
    \/ TargetReturn

\* a method that has started runs on to its return: it is straight-line code
\* in one thread, and scipy ends a search after maxiter iterations
SpecSearches == InitSearches /\ [][NextSearches]_vars /\ WF_vars(NextSearches)

-----------------------------------------------------------------------------
(* The calls on one predictor and its composition model, kept in a log:     *)
(* args is the sequence of the calls made so far, result the sequence of    *)
(* what they returned                                                       *)

\* most calls in a log
MaxCalls == 3

\* records around the 50000 kg reference scale, with and without a capacity
LoggedRows ==
    RowsOf({I(1000)}, Floats({40000}), Floats({50000}), Floats({100}),
           Floats({28}), Floats({75}), Floats({15}))

\* one month of 2023 with a production
LoggedMonthlyTables ==
    {<<r>> : r \in {f \in FeatureRows :
                       f.Year = 2023 /\ f.production_volume = I(1000)}}

\* the year 2023 with no waste or with 600 kg
LoggedYearlyTables(pw, rw, tw, monthly) ==
    {<<y>> : y \in {r \in YearlyRows(pw, rw, tw, monthly) :
                       r.Year = 2023 /\ r.Waste_KG \in {I(0), I(600)}}}

InitLog ==
    /\ Constructed
    /\ op = "init"
    /\ args = <<>>
    /\ result = <<>>

\* a call and what it returned join the log
Logged(call, value) ==
    /\ Len(args) < MaxCalls
    /\ op' = call.call
    /\ args' = Append(args, call)
    /\ result' = Append(result, value)

LoggedComposition ==
    /\ \E row \in LoggedRows :
          Logged([call |-> "calculate_composition", row |-> row],
                 calculate_composition(row, FALSE))
    /\ UNCHANGED <<production_weight, rain_weight, temp_weight,
                   calibration_factor, composition_model, constraints, model,
                   solver, scipy_calls>>

LoggedPredictOneMonth ==
    /\ \E temp \in Floats({28}), production_capacity \in {None} :
          Logged([call |-> "predict_one_month", production |-> I(50000),
                  rain |-> I(100), temp |-> temp, humidity |-> I(75),
                  wind |-> I(15), production_capacity |-> production_capacity],
                 predict_one_month(production_weight, rain_weight, temp_weight,
                                   calibration_factor, I(50000), I(100), temp,
                                   I(75), I(15), production_capacity))
    /\ UNCHANGED <<production_weight, rain_weight, temp_weight,
                   calibration_factor, composition_model, constraints, model,
                   solver, scipy_calls>>

LoggedCalibrate ==
    /\ \E monthly \in LoggedMonthlyTables :
        \E yearly \in LoggedYearlyTables(production_weight, rain_weight,
                                         temp_weight, monthly) :
          /\ calibration_factor' =
                 calibrate(production_weight, rain_weight, temp_weight,
                           calibration_factor, yearly, monthly)
          /\ Logged([call |-> "calibrate", yearly_waste_df |-> yearly,
                     monthly_features_df |-> monthly], None)
    /\ UNCHANGED <<production_weight, rain_weight, temp_weight,
                   composition_model, constraints, model, solver, scipy_calls>>

LoggedDistribute ==
    /\ \E monthly \in LoggedMonthlyTables :
        \E yearly \in {t \in LoggedYearlyTables(production_weight, rain_weight,
                                              temp_weight, monthly) :
                           t[1].Waste_KG = I(600)} :
          \E order \in Orders(common_years(yearly, monthly)) :
            Logged([call |-> "distribute", yearly_waste_df |-> yearly,
                    monthly_features_df |-> monthly],
                   distribute(production_weight, rain_weight, temp_weight,
                              yearly, monthly, order))
    /\ UNCHANGED <<production_weight, rain_weight, temp_weight,
                   calibration_factor, composition_model, constraints, model,
                   solver, scipy_calls>>

\* calculate_waste_potential(df): the scores of the rows of the table
LoggedWastePotential ==
    /\ \E df \in LoggedMonthlyTables :
          Logged([call |-> "calculate_waste_potential", df |-> df],
                 [i \in DOMAIN df |->
                     calculate_waste_potential(production_weight, rain_weight,
                                               temp_weight, df[i])])
    /\ UNCHANGED <<production_weight, rain_weight, temp_weight,
                   calibration_factor, composition_model, constraints, model,
                   solver, scipy_calls>>

NextLog ==
    \/ LoggedComposition
    \/ LoggedPredictOneMonth
    \/ LoggedCalibrate
    \/ LoggedDistribute
    \/ LoggedWastePotential

SpecLog == InitLog /\ [][NextLog]_vars

-----------------------------------------------------------------------------
(* predict_one_month called from several threads on one calibrated          *)
(* predictor (api.py runs predict_single_month in a thread pool): a step is *)
(* a statement that reads an attribute of the predictor.  For a thread t,   *)
(* op[t] is the last local variable it has assigned, args[t] its arguments  *)
(* and result[t] its local variables, in the end what it returns            *)

\* threads calling at the same time
NumThreads == 2

Threads == 1..NumThreads

ConcurrentInputs ==
    [production : Floats({40000, 50000}), rain : Floats({100}),
     temp : Floats({28}), humidity : Floats({75}), wind : Floats({15}),
     production_capacity : {None}]

\* load_model of api.py: a predictor, calibrated; then the calls arrive
InitConcurrent ==
    /\ \E w \in WeightSettings :
          /\ production_weight = w[1]
          /\ rain_weight = w[2]
          /\ temp_weight = w[3]
    /\ \E monthly \in LoggedMonthlyTables :
        \E yearly \in LoggedYearlyTables(production_weight, rain_weight,
                                         temp_weight, monthly) :
          calibration_factor =
              calibrate(production_weight, rain_weight, temp_weight, I(1),
                        yearly, monthly)
    /\ composition_model = WasteCompositionModel
    /\ constraints = FeatureConstraints
    /\ model = 0
    /\ solver = 0
    /\ scipy_calls = <<>>
    /\ op = [t \in Threads |-> "called"]
    /\ args \in [Threads -> ConcurrentInputs]
    /\ result = [t \in Threads |-> <<>>]

\* an assignment to a local variable that lands in the frame of every call
assign_in_every_frame(frames, t, name, value) ==
    [u \in DOMAIN frames |-> (name :> value) @@ frames[u]]

\* an assignment to a local variable: into the frame of the thread's own call
assign(frames, t, name, value) ==
    [frames EXCEPT ![t] = (name :> value) @@ @]

\* thread t assigns a local variable; the predictor is only read
Assigns(t, name, value) ==
    /\ op' = [op EXCEPT ![t] = name]
    /\ result' = assign(result, t, name, value)
    /\ UNCHANGED <<production_weight, rain_weight, temp_weight,
                   calibration_factor, composition_model, constraints, model,
                   solver, scipy_calls, args>>

\* base_potential = production ** self.production_weight
BasePotential(t) ==
    /\ op[t] = "called"
    /\ Assigns(t, "base_potential", Pow(args[t].production, production_weight))

\* score = base_potential * weather_modifier, with self.rain_weight and
\* self.temp_weight
Score(t) ==
    /\ op[t] = "base_potential"
    /\ Assigns(t, "score",
               Mul(result[t].base_potential,
                   Add(Add(I(1), Mul(rain_weight, Div(args[t].rain, I(500)))),
                       Mul(temp_weight, Div(args[t].temp, I(35))))))

\* predicted_total_kg = score * self.calibration_factor
PredictedTotal(t) ==
    /\ op[t] = "score"
    /\ Assigns(t, "predicted_total_kg", Mul(result[t].score, calibration_factor))

\* row, composition = self.composition_model.calculate_composition(row)
Composition(t) ==
    /\ op[t] = "predicted_total_kg"
    /\ Assigns(t, "composition",
               calculate_composition(
                   [predicted_waste_kg |-> result[t].predicted_total_kg,
                    production_volume |-> args[t].production,
                    production_capacity |->
                        capacity_or_estimate(args[t].production,
                                             args[t].production_capacity),
                    rain_sum |-> args[t].rain,
                    temperature_mean |-> args[t].temp,
                    humidity_mean |-> args[t].humidity,
                    wind_speed_mean |-> args[t].wind], FALSE))

\* result = {'Total_Waste_kg': predicted_total_kg}, updated with the
\* composition, and the return; an exception of calculate_composition
\* leaves the call instead
ReturnPrediction(t) ==
    /\ op[t] = "composition"
    /\ op' = [op EXCEPT ![t] = "predict_one_month"]
    /\ result' = [result EXCEPT ![t] =
                     IF @.composition.raised # "" THEN @.composition
                     ELSE [Total_Waste_kg |-> @.predicted_total_kg]
                              @@ @.composition]
    /\ UNCHANGED <<production_weight, rain_weight, temp_weight,
                   calibration_factor, composition_model, constraints, model,
                   solver, scipy_calls, args>>

NextConcurrent ==
    \E t \in Threads :
        \/ BasePotential(t)
        \/ Score(t)
        \/ PredictedTotal(t)
        \/ Composition(t)
        \/ ReturnPrediction(t)

SpecConcurrent == InitConcurrent /\ [][NextConcurrent]_vars

-----------------------------------------------------------------------------
(* The request boundary of the optimizer: the two POST handlers of app.py   *)
(* and main of run_optimization.py, each as a function of its request.  The *)
(* result holds the status (HTTP status, or exit code), the call made to    *)
(* the optimizer, if any, and whether a result file was saved               *)

\* int(value) of a JSON number: an int as it is, a float cut towards zero
py_int(value) ==
    IF isinstance_int(value) THEN value.int
    ELSE IF value.n >= 0 THEN value.n \div value.d
    ELSE -((-value.n) \div value.d)

\* `if production_kg:` on a JSON number or None
truthy(value) == value # None /\ ~IsZero(as_float(value))

\* production_kg = data.get('production_kg'), made a float when it is truthy
request_production(data) ==
    LET production_kg == dict_get(data, "production_kg", None)
    IN  IF truthy(production_kg) THEN as_float(production_kg) ELSE production_kg

\* the keys of a target request and the categories they stand for
target_keys ==
    [target_total_waste |-> "total_waste_kg",
     target_salt_dust |-> "salt_dust_kg",
     target_brine |-> "brine_runoff_kg",
     target_organic |-> "organic_matter_kg",
     target_packaging |-> "packaging_waste_kg",
     target_other |-> "other_solids_kg"]

\* target_percentages as optimize_target builds it from the request
request_targets(data) ==
    [category \in {target_keys[k] : k \in DOMAIN target_keys \cap DOMAIN data} |->
        as_float(data[CHOOSE k \in DOMAIN target_keys \cap DOMAIN data :
                          target_keys[k] = category])]

\* the checks of both handlers before the optimizer is called: the message
\* of the 400 response, "" when the request passes
request_error(data, target_mode) ==
    IF DOMAIN data = {} THEN "No JSON data provided"
    ELSE IF "month" \notin DOMAIN data THEN "month is required"
    ELSE IF py_int(data.month) \notin 1..12 THEN "Month must be between 1 and 12"
    ELSE IF target_mode /\ DOMAIN request_targets(data) = {}
         THEN "At least one target must be specified"
    ELSE ""

\* what a handler leaves: status, the optimizer call and the saved file
Outcome(status, invoked, saved) ==
    [status |-> status, invoked |-> invoked, saved |-> saved]

\* the optimizer takes a production of 0 as the float it compares equal to
optimizer_production(production_kg) ==
    IF production_kg = None THEN None ELSE as_float(production_kg)

\* JSON bodies: the month missing, an int in or out of range, or a float;
\* the production missing, zero, below the global bounds or inside them
MonthFields ==
    {<<>>} \cup {[month |-> v] : v \in {PyInt(0), PyInt(7), PyInt(13), Q(15, 2)}}

ProductionFields ==
    {<<>>} \cup {[production_kg |-> v] :
                    v \in {PyInt(0), PyInt(100), PyInt(3000000)}}

TargetFields == {<<>>, [target_total_waste |-> I(4)]}

Requests ==
    {[call |-> "app.optimize_minimize", data |-> m @@ p] :
        m \in MonthFields, p \in ProductionFields}
    \cup
    {[call |-> "app.optimize_target", data |-> (m @@ p) @@ t] :
        m \in MonthFields, p \in ProductionFields, t \in TargetFields}
    \cup
    {[call |-> "run_optimization.main", mode |-> mode, month |-> month,
      production |-> production, target_total |-> target_total,
      method |-> "SLSQP", no_seasonal |-> FALSE] :
        mode \in {"minimize", "target"}, month \in {0, 7, 13},
        production \in {None, I(100), I(3000000)},
        target_total \in {None, I(4)}}

InitRequests ==
    /\ production_weight = 1
    /\ rain_weight = I(0)
    /\ temp_weight = I(0)
    /\ calibration_factor = I(1)
    /\ composition_model = WasteCompositionModel
    /\ constraints = FeatureConstraints
    /\ model \in Models
    /\ solver \in Installations
    /\ scipy_calls = <<>>
    /\ op = "input"
    /\ args \in Requests
    /\ result = <<>>

\* the call of a handler to optimize_minimize_waste, and what the handler
\* makes of the result
MinimizeCalled(name, month, production_kg, method, seasonal, failed) ==
    \E returned \in
        {optimize_minimize_waste(model, solver, month,
                                 optimizer_production(production_kg), method,
                                 seasonal)} :
        Returns(name,
                Outcome(IF returned.result.success THEN 200 ELSE failed,
                        [call |-> "optimize_minimize_waste", month |-> month,
                         production_kg |-> production_kg, method |-> method,
                         use_seasonal_constraints |-> seasonal],
                        returned.result.success \/ failed = 0),
                returned.calls)

\* the call of a handler to optimize_target_waste
TargetCalled(name, target, month, production_kg, method, seasonal, failed) ==
    \E draws \in [1..3 -> UniformDraws] :
      \E bounds \in {bounds_list(bounds_dict(month,
                                             optimizer_production(production_kg),
                                             seasonal))} :
        \E starts \in {[i \in 1..3 |-> box_point(bounds, draws[i])]} :
          \E returned \in
              {optimize_target_waste(model, solver, target, month,
                                     optimizer_production(production_kg), None,
                                     method, seasonal, starts)} :
            Returns(name,
                    Outcome(IF returned.result.success THEN 200 ELSE failed,
                            [call |-> "optimize_target_waste",
                             target_percentages |-> target, month |-> month,
                             production_kg |-> production_kg, method |-> method,
                             use_seasonal_constraints |-> seasonal],
                            returned.result.success \/ failed = 0),
                    returned.calls)

\* app.py: POST /optimize/minimize
AppOptimizeMinimize ==
    /\ op = "input"
    /\ args.call = "app.optimize_minimize"
    /\ IF request_error(args.data, FALSE) # ""
       THEN Returns(args.call, Outcome(400, None, FALSE), <<>>)
       ELSE MinimizeCalled(args.call, py_int(args.data.month),
                           request_production(args.data), "SLSQP", TRUE, 500)

\* app.py: POST /optimize/target
AppOptimizeTarget ==
    /\ op = "input"
    /\ args.call = "app.optimize_target"
    /\ IF request_error(args.data, TRUE) # ""
       THEN Returns(args.call, Outcome(400, None, FALSE), <<>>)
       ELSE TargetCalled(args.call, request_targets(args.data),
                         py_int(args.data.month), request_production(args.data),
                         "SLSQP", TRUE, 500)

\* run_optimization.py: main, after argparse has taken --month as an int of
\* range(1, 13) or ended the run with status 2; it saves whatever the
\* optimizer returns and ends with status 0
Main ==
    /\ op = "input"
    /\ args.call = "run_optimization.main"
    /\ IF args.month \notin 1..12
       THEN Returns(args.call, Outcome(2, None, FALSE), <<>>)
       ELSE IF args.mode = "minimize"
       THEN MinimizeCalled(args.call, args.month, args.production, args.method,
                           ~args.no_seasonal, 0)
       ELSE IF args.target_total = None
       THEN Returns(args.call, Outcome(1, None, FALSE), <<>>)
       ELSE TargetCalled(args.call, [total_waste_kg |-> args.target_total],
                         args.month, args.production, args.method,
                         ~args.no_seasonal, 0)

NextRequests ==
    \/ AppOptimizeMinimize
    \/ AppOptimizeTarget
    \/ Main

SpecRequests == InitRequests /\ [][NextRequests]_vars

-----------------------------------------------------------------------------
(* Runs on one loaded optimizer, kept in a log: args is the sequence of the  *)
(* calls made so far, result the sequence of what they returned, scipy_calls *)
(* the calls made to scipy by all of them                                    *)

\* most calls in a log of runs
MaxRuns == 2

\* calls for July and for a month that has no season; the searches with the
\* production free or fixed, under seasonal and under global bounds
RunCalls ==
    {call \in OptimizerCalls :
        \/ call.call = "get_bounds"
        \/ call.call = "get_seasonal_bounds" /\ call.month \in {7, 13}
        \/ /\ call.call = "optimize_minimize_waste"
           /\ call.month = 7
           /\ call.production_kg # I(0)
           /\ call.method = "differential_evolution"
        \/ /\ call.call = "optimize_target_waste"
           /\ call.month = 7
           /\ call.production_kg = None
           /\ call.weights = None
           /\ call.method = "SLSQP"}

\* installations whose global search converges
RunInstallations ==
    {how \in Installations : how.global_success /\ how.corner \in {-1, 0}}

\* the fractions of the box at which the three starts of a run land
RunDraws == {<<I(0), I(0), I(0)>>, <<Q(1, 2), Q(1, 2), Q(1, 2)>>}

\* WasteOptimizer.__init__, nothing called yet
InitRuns ==
    /\ production_weight = 1
    /\ rain_weight = I(0)
    /\ temp_weight = I(0)
    /\ calibration_factor = I(1)
    /\ composition_model = WasteCompositionModel
    /\ constraints = FeatureConstraints
    /\ model \in Models
    /\ solver \in RunInstallations
    /\ scipy_calls = <<>>
    /\ op = "init"
    /\ args = <<>>
    /\ result = <<>>

\* a call, what it returned and its calls to scipy join the log; table is
\* what the call leaves of the class tables
Ran(call, value, calls, table) ==
    /\ op' = call.call
    /\ args' = Append(args, call)
    /\ result' = Append(result, value)
    /\ scipy_calls' = scipy_calls \o calls
    /\ constraints' = table
    /\ UNCHANGED <<production_weight, rain_weight, temp_weight,
                   calibration_factor, composition_model, model, solver>>

RunGetBounds ==
    /\ Len(args) < MaxRuns
    /\ \E call \in RunCalls :
          /\ call.call = "get_bounds"
          /\ Ran(call, get_bounds(call.as_tuple), <<>>, constraints)

RunGetSeasonalBounds ==
    /\ Len(args) < MaxRuns
    /\ \E call \in RunCalls :
          /\ call.call = "get_seasonal_bounds"
          /\ Ran(call, get_seasonal_bounds(call.month), <<>>, constraints)

RunMinimizeWaste ==
    /\ Len(args) < MaxRuns
    /\ \E call \in RunCalls :
          /\ call.call = "optimize_minimize_waste"
          /\ \E returned \in
                {optimize_minimize_waste(model, solver, call.month,
                                         call.production_kg, call.method,
                                         call.use_seasonal_constraints)} :
                Ran(call, returned.result, returned.calls,
                    constraints_after_run(call.month, call.production_kg,
                                          call.use_seasonal_constraints))

\* the starts of the refinements are drawn anew in every run
RunTargetWaste ==
    /\ Len(args) < MaxRuns
    /\ \E call \in RunCalls, draws \in RunDraws :
          /\ call.call = "optimize_target_waste"
          /\ \E bounds \in {bounds_of_call(call)} :
              \E returned \in
                  {optimize_target_waste(
                      model, solver, call.target_percentages, call.month,
                      call.production_kg, call.weights, call.method,
                      call.use_seasonal_constraints,
                      [i \in 1..3 |-> box_point(bounds, draws[i])])} :
                Ran(call, returned.result, returned.calls,
                    constraints_after_run(call.month, call.production_kg,
                                          call.use_seasonal_constraints))

NextRuns ==
    \/ RunGetBounds
    \/ RunGetSeasonalBounds
    \/ RunMinimizeWaste
    \/ RunTargetWaste

SpecRuns == InitRuns /\ [][NextRuns]_vars

-----------------------------------------------------------------------------
(* The two scoring paths on the same month: calculate_waste_potential on a  *)
(* table and on the one-row table of one of its months, and                 *)
(* predict_one_month on that month's values.  The table and the month are   *)
(* drawn at the start; result gathers what the three calls computed         *)

\* months of 2023 with no, a small and a large production
ScoreRows ==
    {[Year |-> 2023, production_volume |-> I(p), rain_sum |-> I(r),
      temperature_mean |-> I(t), humidity_mean |-> I(75),
      wind_speed_mean |-> I(15)] : p \in {0, 1000, 50000}, r \in {0, 100},
                                   t \in {28, 35}}

ScoreTables == SeqsUpTo(ScoreRows, MaxMonths) \ {<<>>}

InitScores ==
    /\ Constructed
    /\ op = "input"
    /\ \E df \in ScoreTables, month \in 1..MaxMonths :
          /\ month \in DOMAIN df
          /\ args = [df |-> df, month |-> month]
    /\ result = <<>>

\* a step of the comparison: the predictor is only read
Scored(position, value) ==
    /\ op' = position
    /\ result' = value
    /\ UNCHANGED <<production_weight, rain_weight, temp_weight,
                   calibration_factor, composition_model, constraints, model,
                   solver, scipy_calls, args>>

\* calculate_waste_potential(df)
ScoreTable ==
    /\ op = "input"
    /\ Scored("table scored",
              [table_scores |->
                  potential_scores(production_weight, rain_weight, temp_weight,
                                   args.df)])

\* calculate_waste_potential on the one-row table of the month
ScoreRow ==
    /\ op = "table scored"
    /\ Scored("row scored",
              result @@
              [row_scores |->
                  potential_scores(production_weight, rain_weight, temp_weight,
                                   <<args.df[args.month]>>)])

\* predict_one_month on the values of the month: its local variable score and
\* what it returns
PredictMonth ==
    /\ op = "row scored"
    /\ \E row \in {args.df[args.month]} :
          Scored("predict_one_month",
                 result @@
                 [score |->
                     predict_score(production_weight, rain_weight, temp_weight,
                                   row.production_volume, row.rain_sum,
                                   row.temperature_mean),
                  returned |->
                     predict_one_month(production_weight, rain_weight,
                                       temp_weight, calibration_factor,
                                       row.production_volume, row.rain_sum,
                                       row.temperature_mean, row.humidity_mean,
                                       row.wind_speed_mean, None)])

NextScores == ScoreTable \/ ScoreRow \/ PredictMonth

SpecScores == InitScores /\ [][NextScores]_vars

-----------------------------------------------------------------------------
(* Claims *)

InBounds(x, pair) == Le(pair[1], x) /\ Le(x, pair[2])

Sum3(a, b, c) == Add(Add(a, b), c)

SolidSum(r) ==
    Sum3(r.Solid_Waste_Limestone_kg, r.Solid_Waste_Gypsum_kg,
         r.Solid_Waste_Industrial_Salt_kg)

\* the precondition of C1 on a row
PartitionCase(row) ==
    /\ Le(I(0), row.predicted_waste_kg)
    /\ Lt(I(0), row_capacity(row))
    /\ Lt(I(0), sum_scores(composition_run(row).solid_scores))

\* C1: for a row with total_solid_waste >= 0, positive capacity and a
\* positive score sum, calculate_composition returns and its three solid
\* outputs sum to total_solid_waste.
C1_PartitionSum ==
    (op = "calculate_composition" /\ PartitionCase(args.row))
        => /\ result.raised = ""
           /\ SolidSum(result) = args.row.predicted_waste_kg

C1_Witness ==
    /\ op = "calculate_composition"
    /\ PartitionCase(args.row)
    /\ "production_capacity" \in DOMAIN args.row
    /\ Lt(I(0), args.row.predicted_waste_kg)
    /\ Lt(I(0), result.Solid_Waste_Limestone_kg)
    /\ Lt(result.Solid_Waste_Limestone_kg, result.Solid_Waste_Gypsum_kg)

\* the precondition of C2 on a row
WithinGlobalBounds(row) ==
    /\ InBounds(row.temperature_mean, BOUNDS.temperature_c)
    /\ InBounds(row.humidity_mean, BOUNDS.humidity_pct)
    /\ InBounds(row.rain_sum, BOUNDS.rainfall_mm)
    /\ InBounds(row.wind_speed_mean, BOUNDS.wind_speed_kmh)
    /\ InBounds(row.production_volume, BOUNDS.production_kg)
    /\ ("production_capacity" \in DOMAIN row
            => Le(row.production_volume, row.production_capacity))
    /\ Le(I(0), row.predicted_waste_kg)

OutputFields ==
    {"Solid_Waste_Limestone_kg", "Solid_Waste_Gypsum_kg",
     "Solid_Waste_Industrial_Salt_kg", "Liquid_Waste_Bittern_Liters",
     "Potential_Epsom_Salt_kg", "Potential_Potash_kg",
     "Potential_Magnesium_Oil_Liters"}

\* C2: for a row within the global bounds, with the capacity defaulted or
\* at least the production, and total_solid_waste >= 0, every field that
\* calculate_composition returns is >= 0.
C2_NonNegative ==
    (op = "calculate_composition" /\ WithinGlobalBounds(args.row))
        => /\ result.raised = ""
           /\ \A f \in OutputFields : Le(I(0), result[f])

C2_Witness ==
    /\ op = "calculate_composition"
    /\ WithinGlobalBounds(args.row)
    /\ args.row.temperature_mean = BOUNDS.temperature_c[1]
    /\ args.row.rain_sum = BOUNDS.rainfall_mm[2]
    /\ Lt(I(0), args.row.predicted_waste_kg)
    /\ \A f \in OutputFields : Lt(I(0), result[f])

\* C3: when predict_one_month returns, Total_Waste_kg is
\* production^production_weight * (1 + rain_weight*rain/500 +
\* temp_weight*temp/35) * calibration_factor, with the calibration_factor of
\* the predictor at the call, and the three solid masses sum to it.
C3_PredictTotal ==
    (op = "predict_one_month" /\ result.raised = "")
        => /\ result.Total_Waste_kg =
                Mul(Mul(Pow(args.production, production_weight),
                        Sum3(I(1),
                             Mul(rain_weight, Div(args.rain, I(500))),
                             Mul(temp_weight, Div(args.temp, I(35))))),
                    calibration_factor)
           /\ SolidSum(result) = result.Total_Waste_kg

C3_Witness ==
    /\ op = "predict_one_month"
    /\ result.raised = ""
    /\ calibration_factor # I(1)
    /\ ~IsZero(temp_weight)
    /\ Lt(I(0), result.Total_Waste_kg)

\* the rows of a table whose Year is in years
KeepYears(df, years) == SelectSeq(df, LAMBDA r : r.Year \in years)

\* the precondition of C4: some year is common, and in every common year the
\* monthly scores are positive and every actual total is k times their sum
RoundTrip(k) ==
    LET yearly == args.yearly_waste_df
        monthly == args.monthly_features_df
        common == years_of(yearly) \cap years_of(monthly)
        score(r) == calculate_waste_potential(production_weight, rain_weight,
                                              temp_weight, r)
    IN  /\ common # {}
        /\ \A i \in DOMAIN monthly :
              monthly[i].Year \in common => Lt(I(0), score(monthly[i]))
        /\ \A i \in DOMAIN yearly :
              yearly[i].Year \in common =>
                yearly[i].Waste_KG =
                    Mul(k, potential_sum(production_weight, rain_weight, temp_weight,
                                         KeepYears(monthly, {yearly[i].Year})))

\* C4: after calibrate on tables whose common years all have actual total =
\* k * (sum of the year's positive monthly scores), calibration_factor = k;
\* and the factor is the one the tables cut down to their common years give.
C4_RoundTrip ==
    op = "calibrate" =>
        LET yearly == args.yearly_waste_df
            monthly == args.monthly_features_df
            common == years_of(yearly) \cap years_of(monthly)
        IN  /\ \A k \in KTrue : RoundTrip(k) => calibration_factor = k
            /\ calibration_factor =
                   calibrate(production_weight, rain_weight, temp_weight, I(1),
                             KeepYears(yearly, common), KeepYears(monthly, common))

C4_Witness ==
    /\ op = "calibrate"
    /\ \E k \in KTrue : RoundTrip(k) /\ calibration_factor = k /\ k # I(1)
    /\ \E i \in DOMAIN args.yearly_waste_df :
          /\ args.yearly_waste_df[i].Year \notin years_of(args.monthly_features_df)
          /\ ~IsZero(args.yearly_waste_df[i].Waste_KG)

\* the total calculated score of the last calibrate call
LastCalcScore ==
    LET yearly == args.yearly_waste_df
        monthly == args.monthly_features_df
        common == years_of(yearly) \cap years_of(monthly)
    IN  potential_sum(production_weight, rain_weight, temp_weight,
                      KeepYears(monthly, common))

\* C5: after a calibrate call whose total calculated score is zero,
\* calibration_factor is the sentinel 1.0, whatever calls came before.
C5_SentinelAfterFailedCalibrate ==
    (op = "calibrate" /\ IsZero(LastCalcScore)) => calibration_factor = I(1)

\* C6: after distribute, for every common year the predicted_waste_kg of the
\* year's rows sum to the year's actual Waste_KG; each of the N rows gets 1/N
\* of it when the year's score sum is zero, and otherwise the total times the
\* row's score over the year's score sum.
RECURSIVE SumOf(_, _)
SumOf(seq, field) ==
    IF seq = <<>> THEN I(0) ELSE Add(Head(seq)[field], SumOf(Tail(seq), field))

C6_DistributeSums ==
    op = "distribute" =>
        LET yearly == args.yearly_waste_df
            monthly == args.monthly_features_df
            common == years_of(yearly) \cap years_of(monthly)
            score(r) == calculate_waste_potential(production_weight, rain_weight,
                                                  temp_weight, r)
        IN  /\ {result[i].Year : i \in DOMAIN result} = common
            /\ \A y \in common :
                LET actual == KeepYears(yearly, {y})[1].Waste_KG
                    inputs == KeepYears(monthly, {y})
                    outputs == KeepYears(result, {y})
                    total == potential_sum(production_weight, rain_weight,
                                           temp_weight, inputs)
                IN  /\ Len(outputs) = Len(inputs)
                    /\ SumOf(outputs, "predicted_waste_kg") = actual
                    /\ \A i \in DOMAIN outputs :
                          outputs[i].predicted_waste_kg =
                              IF IsZero(total)
                              THEN Div(actual, I(Len(inputs)))
                              ELSE Div(Mul(actual, score(inputs[i])), total)

C6_Witness ==
    /\ op = "distribute"
    /\ \E y \in years_of(args.yearly_waste_df) :
          LET inputs == KeepYears(args.monthly_features_df, {y})
              outputs == KeepYears(result, {y})
          IN  /\ Len(inputs) = 2
              /\ IsZero(potential_sum(production_weight, rain_weight, temp_weight,
                                      inputs))
              /\ Len(outputs) = 2
              /\ Lt(I(0), outputs[1].predicted_waste_kg)


WeatherFeatures ==
    {"temperature_c", "humidity_pct", "rainfall_mm", "wind_speed_kmh"}

\* the seasons of the table whose month list holds month
SeasonsHolding(month) ==
    {i \in DOMAIN SEASONAL_PATTERNS :
        \E j \in DOMAIN SEASONAL_PATTERNS[i].months :
            SEASONAL_PATTERNS[i].months[j] = month}

\* C7: for every month in 1..12 exactly one season holds the month, and
\* get_seasonal_bounds returns that season's (min, max) pairs with min <= max
\* for temperature, humidity, rainfall and wind, the global pair for
\* production_kg and (month, month) for month; it is not the global fallback.
C7_SeasonalBounds ==
    (op = "get_seasonal_bounds" /\ args.month \in 1..12)
        => /\ \E i \in DOMAIN SEASONAL_PATTERNS :
                /\ SeasonsHolding(args.month) = {i}
                /\ \A f \in WeatherFeatures :
                      /\ result[f] = SEASONAL_PATTERNS[i][f]
                      /\ Le(result[f][1], result[f][2])
           /\ result.production_kg = BOUNDS.production_kg
           /\ result.month = <<I(args.month), I(args.month)>>
           /\ result # BOUNDS

C7_Witness ==
    /\ op = "get_seasonal_bounds"
    /\ args.month = 11
    /\ result.rainfall_mm = <<I(200), I(500)>>
    /\ result.month = <<I(11), I(11)>>

\* C8: for every month in 1..12, no fixed production and seasonal
\* constraints on, every value of the optimal_features that
\* optimize_minimize_waste returns lies within the pair that
\* get_seasonal_bounds(month) gives for its feature, and the month is the
\* requested one, for every method and either convergence outcome.
C8_MinimizeWithinSeasonalBounds ==
    (/\ op = "optimize_minimize_waste"
     /\ args.month \in 1..12
     /\ args.production_kg = None
     /\ args.use_seasonal_constraints)
        => LET seasonal == get_seasonal_bounds(args.month)
               found == result.optimal_features
           IN  /\ \A f \in WeatherFeatures \cup {"production_kg"} :
                     InBounds(found[f], seasonal[f])
               /\ InBounds(I(found.month), seasonal.month)
               /\ found.month = args.month

C8_Witness ==
    /\ op = "optimize_minimize_waste"
    /\ args.month = 7
    /\ args.production_kg = None
    /\ args.use_seasonal_constraints
    /\ args.method = "trust-constr"
    /\ ~result.success
    /\ result.optimal_features.temperature_c = I(32)
    /\ result.optimal_features.month = 7

\* C9: optimize_minimize_waste and optimize_target_waste hand scipy bounds
\* whose month pair is (month, month), with seasonal constraints on or off,
\* and whose production pair is (production_kg, production_kg) when a
\* production_kg is supplied; the optimal_features returned have the
\* requested month, as an integer, and the supplied production_kg.
C9_PinnedInputs ==
    op \in {"optimize_minimize_waste", "optimize_target_waste"}
        => /\ scipy_calls # <<>>
           /\ \A i \in DOMAIN scipy_calls :
                 /\ scipy_calls[i].bounds[6] = <<I(args.month), I(args.month)>>
                 /\ args.production_kg # None =>
                        scipy_calls[i].bounds[5] =
                            <<args.production_kg, args.production_kg>>
           /\ result.optimal_features.month \in Int
           /\ result.optimal_features.month = args.month
           /\ args.production_kg # None =>
                  result.optimal_features.production_kg = args.production_kg

C9_Witness ==
    /\ op = "optimize_target_waste"
    /\ ~args.use_seasonal_constraints
    /\ args.production_kg = I(3000000)
    /\ Len(scipy_calls) = 4
    /\ scipy_calls[4].bounds[5] = <<I(3000000), I(3000000)>>
    /\ scipy_calls[4].bounds[6] = <<I(7), I(7)>>
    /\ result.optimal_features.month = 7
    /\ result.optimal_features.production_kg = I(3000000)

\* the sum of term over the categories
RECURSIVE SumOver(_, _)
SumOver(categories, term) ==
    IF categories = {} THEN I(0)
    ELSE LET c == CHOOSE k \in categories : TRUE
         IN  Add(term[c], SumOver(categories \ {c}, term))

\* the precondition of C10: every targeted category is one the regressor
\* predicts, and every weight is positive
TargetCase ==
    /\ DOMAIN args.target \subseteq Range(waste_categories)
    /\ args.weights # None =>
          \A c \in DOMAIN args.weights : Lt(I(0), args.weights[c])

\* C10: for positive weights the target objective is the sum over the
\* targeted categories of weight * (predicted - target)^2, with weight 1.0
\* for a targeted category that has no weight; it is zero exactly when every
\* targeted prediction equals its target, the same for an overshoot and an
\* undershoot of equal size, and untargeted categories do not enter.
C10_TwoSidedPenalty ==
    (op = "objective_target_waste" /\ TargetCase)
        => LET predicted == predict_waste(model, args.x)
               targeted == DOMAIN args.target
               given(c) == args.weights # None /\ c \in DOMAIN args.weights
               penalty == [c \in targeted |->
                              LET weight == IF given(c) THEN args.weights[c] ELSE I(1)
                                  deviation == Sub(predicted[c], args.target[c])
                              IN  Mul(weight, Mul(deviation, deviation))]
               mirrored == [c \in targeted |->
                               Sub(Mul(I(2), predicted[c]), args.target[c])]
           IN  /\ result = SumOver(targeted, penalty)
               /\ IsZero(result) <=> \A c \in targeted : predicted[c] = args.target[c]
               /\ result = objective_target_waste(model, args.x, mirrored, args.weights)

C10_Witness ==
    /\ op = "objective_target_waste"
    /\ TargetCase
    /\ args.weights # None
    /\ DOMAIN args.target = {"total_waste_kg", "salt_dust_kg"}
    /\ DOMAIN args.weights = {"salt_dust_kg"}
    /\ Lt(predict_waste(model, args.x).total_waste_kg, args.target.total_waste_kg)
    /\ predict_waste(model, args.x).salt_dust_kg # args.target.salt_dust_kg
    /\ Lt(I(0), result)

\* whether the installed scipy reports success for a call
Converges(call) ==
    IF call.function = "differential_evolution" THEN solver.global_success
    ELSE solver.local_success

\* the point of an optimal_features dict, as the solver's vector
PointOf(features) ==
    [i \in DOMAIN feature_order |->
        IF feature_order[i] = "month" THEN I(features.month)
        ELSE features[feature_order[i]]]

\* the objective of the optimize call in args, at a point
ObjectiveAt(x) ==
    IF op = "optimize_minimize_waste" THEN predict_waste(model, x).total_waste_kg
    ELSE objective_target_waste(model, x, args.target_percentages, args.weights)

\* C11: when every search of an optimize_minimize_waste or
\* optimize_target_waste call reports non-convergence, the call returns an
\* OptimizationResult with success = false, the solver's message, and the
\* feature vector, predicted waste, objective value and iteration count of
\* the final point of one of the searches.
C11_NonConvergenceReturned ==
    (/\ op \in {"optimize_minimize_waste", "optimize_target_waste"}
     /\ \A i \in DOMAIN scipy_calls : ~Converges(scipy_calls[i]))
        => /\ result.success = FALSE
           /\ result.message = "Maximum number of iterations has been exceeded"
           /\ DOMAIN result.optimal_features = Range(feature_order)
           /\ DOMAIN result.predicted_waste = Range(waste_categories)
           /\ \E i \in DOMAIN scipy_calls :
                 /\ result.iterations = scipy_calls[i].maxiter
                 /\ \A j \in DOMAIN feature_order :
                       InBounds(PointOf(result.optimal_features)[j],
                                scipy_calls[i].bounds[j])
           /\ result.predicted_waste =
                  predict_waste(model, PointOf(result.optimal_features))
           /\ result.objective_value = ObjectiveAt(PointOf(result.optimal_features))

C11_Witness ==
    /\ op = "optimize_target_waste"
    /\ ~solver.global_success
    /\ ~solver.local_success
    /\ Len(scipy_calls) = 4
    /\ result.success = FALSE
    /\ result.iterations = 1000
    /\ Lt(I(0), result.objective_value)

\* the searches C12 allows a call, while it runs and when it has returned
BoundedSearches ==
    /\ args.call = "optimize_minimize_waste" =>
          /\ Len(scipy_calls) <= 1
          /\ \A i \in DOMAIN scipy_calls : scipy_calls[i].maxiter = 1000
          /\ op = "optimize_minimize_waste" => Len(scipy_calls) = 1
    /\ args.call = "optimize_target_waste" =>
          /\ Len(scipy_calls) <= 4
          /\ \A i \in DOMAIN scipy_calls :
                IF i = 1
                THEN /\ scipy_calls[i].function = "differential_evolution"
                     /\ scipy_calls[i].maxiter = 2000
                ELSE /\ scipy_calls[i].function = "minimize"
                     /\ scipy_calls[i].maxiter = 1000
          /\ op = "optimize_target_waste" => Len(scipy_calls) >= 1

\* the steps of a method end in what the method returns as a whole
StepsAgree ==
    /\ op = "optimize_minimize_waste" =>
          [result |-> result, calls |-> scipy_calls]
              = optimize_minimize_waste(model, solver, args.month,
                                        args.production_kg, args.method,
                                        args.use_seasonal_constraints)
    /\ op = "optimize_target_waste" =>
          [result |-> result, calls |-> scipy_calls]
              = optimize_target_waste(
                    model, solver, args.target_percentages, args.month,
                    args.production_kg, args.weights, args.method,
                    args.use_seasonal_constraints,
                    [i \in 1..(Len(scipy_calls) - 1) |-> scipy_calls[i + 1].x0])

\* C12: every optimization call eventually returns; optimize_minimize_waste
\* runs exactly one search with maxiter = 1000, optimize_target_waste one
\* global search with maxiter = 2000 followed by at most three local
\* searches with maxiter = 1000 each, and no call makes a search beyond
\* these.
C12_CallsReturnAfterBoundedSearches ==
    /\ []BoundedSearches
    /\ \A call \in {"optimize_minimize_waste", "optimize_target_waste"} :
          (op = "input" /\ args.call = call) ~> (op = call)

C12_Witness ==
    /\ op = "optimize_target_waste"
    /\ Len(scipy_calls) = 4
    /\ scipy_calls[1].maxiter = 2000
    /\ scipy_calls[4].maxiter = 1000
    /\ scipy_calls[4].function = "minimize"
    /\ scipy_calls[2].x0 # scipy_calls[4].x0

SolidFields ==
    {"Solid_Waste_Limestone_kg", "Solid_Waste_Gypsum_kg",
     "Solid_Waste_Industrial_Salt_kg"}

\* the case of C13 on a row: the sum of the three solid scores is zero or
\* not finite
ScoreSumFails(row) ==
    \E total \in {sum_scores(composition_run(row).solid_scores)} :
        IsZero(total) \/ ~IsFinite(total)

\* C13: when the sum of the three solid scores is zero or not finite,
\* calculate_composition raises nothing and returns the complete
\* composition, each of the three solids being a third of
\* total_solid_waste.
C13_EqualSplitFallback ==
    (op = "calculate_composition" /\ ScoreSumFails(args.row))
        => /\ result.raised = ""
           /\ DOMAIN result = OutputFields \cup {"raised"}
           /\ \A f \in SolidFields :
                 Mul(I(3), result[f]) = args.row.predicted_waste_kg

LiquidFields ==
    {"Liquid_Waste_Bittern_Liters", "Potential_Epsom_Salt_kg",
     "Potential_Potash_kg", "Potential_Magnesium_Oil_Liters"}

\* C14: whatever the numbers of the row, inside the global bounds or not,
\* each of the bittern volume and the three potentials that
\* calculate_composition returns is >= 0.
C14_LiquidFamilyNonNegative ==
    (op = "calculate_composition" /\ result.raised = "")
        => \A f \in LiquidFields : Le(I(0), result[f])

\* C15: two calculate_composition calls on equal records return equal
\* outputs whatever calls were made between them, and no call changes the
\* ratio tables of the composition model.
C15_CompositionPure ==
    /\ composition_model = WasteCompositionModel
    /\ \A i, j \in DOMAIN args :
          (args[i].call = "calculate_composition" /\ args[j] = args[i])
              => result[i] = result[j]

C15_Witness ==
    /\ Len(args) = 3
    /\ args[1].call = "calculate_composition"
    /\ args[2].call = "calibrate"
    /\ args[3] = args[1]
    /\ calibration_factor # I(1)
    /\ result[1].raised = ""
    /\ result[3] = result[1]
    /\ composition_model = WasteCompositionModel

\* the bittern volume as C16 states it, for a row and its capacity
StatedBittern(row, capacity) ==
    Div(Mul(Add(Mul(Q(3, 10), capacity), Mul(Q(7, 10), row.production_volume)),
            Add(I(1), Mul(Q(1, 100), Sub(row.temperature_mean, I(25))))),
        Add(I(1), Mul(Q(2, 1000), row.rain_sum)))

\* the trace of C16: capacity = production = 50000, rain 100, temperature 28
BitternTrace(row) ==
    /\ "production_capacity" \in DOMAIN row
    /\ row.production_capacity = I(50000)
    /\ row.production_volume = I(50000)
    /\ row.rain_sum = I(100)
    /\ row.temperature_mean = I(28)

\* C16: the bittern volume that calculate_composition returns is
\* (0.3*production_capacity + 0.7*production_volume)
\* * (1 + 0.01*(temperature - 25)) / (1 + 0.002*rain), the capacity being
\* production_volume / 0.8 for a record without one; for capacity =
\* production = 50000, rain 100 and temperature 28 it is within 1 liter of
\* 42916.
C16_BitternVolume ==
    (op = "calculate_composition" /\ result.raised = "")
        => /\ result.Liquid_Waste_Bittern_Liters =
                StatedBittern(args.row,
                    IF "production_capacity" \in DOMAIN args.row
                    THEN args.row.production_capacity
                    ELSE Div(args.row.production_volume, Q(8, 10)))
           /\ BitternTrace(args.row) =>
                 /\ Le(I(42915), result.Liquid_Waste_Bittern_Liters)
                 /\ Le(result.Liquid_Waste_Bittern_Liters, I(42917))

C16_Witness ==
    /\ op = "calculate_composition"
    /\ result.raised = ""
    /\ BitternTrace(args.row)
    /\ result.Liquid_Waste_Bittern_Liters = Q(128750, 3)

\* the items of a dict whose feature has global bounds
RECURSIVE BoundedItems(_)
BoundedItems(features) ==
    IF features = <<>> THEN <<>>
    ELSE IF Head(features).feature \in DOMAIN BOUNDS
         THEN <<Head(features)>> \o BoundedItems(Tail(features))
         ELSE BoundedItems(Tail(features))

\* every supplied feature that has a global bound lies within it, and the
\* month, if supplied, is an integer in 1..12
FeaturesValid(features) ==
    \A i \in DOMAIN features :
        /\ features[i].feature \in DOMAIN BOUNDS =>
              InBounds(as_float(features[i].value), BOUNDS[features[i].feature])
        /\ features[i].feature = "month" =>
              /\ isinstance_int(features[i].value)
              /\ features[i].value.int \in 1..12

\* C17: validate_features returns (True, "Valid") exactly when every
\* supplied feature that has a global bound lies within its [min, max] and
\* the month, if supplied, is an integer in 1..12, and otherwise False with
\* a message; the features without a global bound do not change what it
\* returns.
C17_ValidateFeatures ==
    op = "validate_features"
        => /\ result[1] = FeaturesValid(args.features)
           /\ result[1] => result[2].text = "Valid"
           /\ ~result[1] => result[2].text \notin {"", "Valid"}
           /\ result = validate_features(BoundedItems(args.features))

\* the calibration factor after the calls of a log on a new predictor: only
\* the calibrate calls count
RECURSIVE FactorAfter(_)
FactorAfter(calls) ==
    IF calls = <<>> THEN I(1)
    ELSE LET last == calls[Len(calls)]
             before == FactorAfter(SubSeq(calls, 1, Len(calls) - 1))
         IN  IF last.call = "calibrate"
             THEN calibrate(production_weight, rain_weight, temp_weight, before,
                            last.yearly_waste_df, last.monthly_features_df)
             ELSE before

\* C18: only calibrate changes calibration_factor: after any calls it is
\* what the calibrate calls among them left, 1.0 if there was none, and a
\* prediction's total is its score times the factor left by the calibrate
\* calls before it.
C18_FactorReadOnly ==
    /\ calibration_factor = FactorAfter(args)
    /\ (\A i \in DOMAIN args : args[i].call # "calibrate")
          => calibration_factor = I(1)
    /\ \A i \in DOMAIN args :
          (args[i].call = "predict_one_month" /\ result[i].raised = "")
              => result[i].Total_Waste_kg =
                    Mul(predict_score(production_weight, rain_weight,
                                      temp_weight, args[i].production,
                                      args[i].rain, args[i].temp),
                        FactorAfter(SubSeq(args, 1, i - 1)))

C18_Witness ==
    /\ Len(args) = 3
    /\ args[1].call = "calibrate"
    /\ args[2].call = "predict_one_month"
    /\ args[3].call = "distribute"
    /\ calibration_factor # I(1)
    /\ result[2].raised = ""
    /\ result[2].Total_Waste_kg =
          Mul(predict_score(production_weight, rain_weight, temp_weight,
                            args[2].production, args[2].rain, args[2].temp),
              calibration_factor)

\* what a predict_one_month call returns when it runs alone
AloneResult(call) ==
    predict_one_month(production_weight, rain_weight, temp_weight,
                      calibration_factor, call.production, call.rain, call.temp,
                      call.humidity, call.wind, call.production_capacity)

\* C19: in every interleaving of concurrent predict_one_month calls on one
\* calibrated predictor each call returns what it returns when run alone,
\* and no step of a prediction changes the calibration factor or the tables
\* of the composition model.
C19_ConcurrentPredictions ==
    /\ [](\A t \in Threads :
             op[t] = "predict_one_month" => result[t] = AloneResult(args[t]))
    /\ [][/\ calibration_factor' = calibration_factor
          /\ composition_model' = composition_model]_vars

C19_Witness ==
    /\ op[1] = "predict_one_month"
    /\ op[2] = "score"
    /\ args[1] # args[2]
    /\ result[1].raised = ""
    /\ Lt(I(0), result[1].Total_Waste_kg)
    /\ calibration_factor # I(1)

\* C20: the optimizer is called only with a month that is an integer in
\* 1..12, with a fixed production, when one is given, inside the global
\* production bounds, and in target mode with a non-empty target mapping.
C20_BoundaryRejectsInvalid ==
    (op \in {"app.optimize_minimize", "app.optimize_target",
             "run_optimization.main"} /\ result.invoked # None)
        => /\ result.invoked.month \in 1..12
           /\ result.invoked.production_kg # None =>
                 InBounds(as_float(result.invoked.production_kg),
                          BOUNDS.production_kg)
           /\ result.invoked.call = "optimize_target_waste" =>
                 DOMAIN result.invoked.target_percentages # {}

\* the optimize calls C21 is about: optimize_target_waste, and
\* optimize_minimize_waste with the global-search method
SeededRun(call) ==
    \/ call.call = "optimize_target_waste"
    \/ /\ call.call = "optimize_minimize_waste"
       /\ call.method = "differential_evolution"

\* C21: two optimize_target_waste calls (and two optimize_minimize_waste
\* calls with the global-search method) with identical arguments on the same
\* loaded model return the same optimal feature vector, objective value and
\* success flag, also when the global result exceeds 0.1 and the local
\* refinements from random starting points take place.
C21_Reproducible ==
    \A i, j \in DOMAIN args :
        (SeededRun(args[i]) /\ args[i] = args[j])
            => /\ result[i].optimal_features = result[j].optimal_features
               /\ result[i].objective_value = result[j].objective_value
               /\ result[i].success = result[j].success

\* what the installed scipy returns for the calls an optimize_target_waste
\* run has made, with the objective value at each point
StageResults ==
    [i \in DOMAIN scipy_calls |->
        with_fun(model,
                 IF scipy_calls[i].function = "differential_evolution"
                 THEN differential_evolution(solver, scipy_calls[i].bounds,
                                             scipy_calls[i].maxiter)
                 ELSE minimize(solver, scipy_calls[i].x0, scipy_calls[i].bounds,
                               scipy_calls[i].maxiter),
                 args.target_percentages, args.weights)]

\* the first stage whose objective value is the one returned
FirstStageWith(stages, fun) ==
    CHOOSE i \in DOMAIN stages :
        /\ stages[i].fun = fun
        /\ \A k \in 1..(i - 1) : stages[k].fun # fun

\* C22: optimize_target_waste runs the global search first; local
\* refinements run only when the global objective value is strictly greater
\* than 0.1, and then exactly three, each started inside the bounds; the
\* returned objective_value is the minimum over the global result and the
\* refinements that ran, never larger than the global value, and a
\* refinement replaces the kept result only when strictly lower.
C22_TwoStageEscalation ==
    op = "optimize_target_waste" =>
        \E stages \in {StageResults} :
            /\ Len(scipy_calls) >= 1
            /\ scipy_calls[1].function = "differential_evolution"
            /\ Len(scipy_calls) = IF Lt(Q(1, 10), stages[1].fun) THEN 4 ELSE 1
            /\ \A i \in 2..Len(scipy_calls) :
                  /\ scipy_calls[i].function = "minimize"
                  /\ \A j \in DOMAIN feature_order :
                        InBounds(scipy_calls[i].x0[j], scipy_calls[i].bounds[j])
            /\ \E i \in DOMAIN stages : stages[i].fun = result.objective_value
            /\ \A i \in DOMAIN stages : ~Lt(stages[i].fun, result.objective_value)
            /\ ~Lt(stages[1].fun, result.objective_value)
            /\ \E kept \in {stages[FirstStageWith(stages, result.objective_value)]} :
                  /\ PointOf(result.optimal_features) = kept.x
                  /\ result.success = kept.success
                  /\ result.iterations = kept.nit

C22_Witness ==
    /\ op = "optimize_target_waste"
    /\ Len(scipy_calls) = 4
    /\ Lt(result.objective_value, StageResults[1].fun)
    /\ Lt(Q(1, 10), StageResults[1].fun)
    /\ result.objective_value = StageResults[4].fun
    /\ result.objective_value # StageResults[2].fun

\* C23: in optimize_target_waste the success flag of the returned result is
\* the convergence flag of the last search stage that ran: the global search
\* when no escalation happens, otherwise the final local refinement.
C23_SuccessOfLastStage ==
    op = "optimize_target_waste" =>
        result.success = Converges(scipy_calls[Len(scipy_calls)])

\* the search strategy of a call to scipy, by the name the method argument
\* uses for it
StrategyOf(call) ==
    IF call.function = "differential_evolution" THEN "differential_evolution"
    ELSE call.method

\* the strategy of the search whose result the run returned
ProducedBy ==
    IF op = "optimize_minimize_waste" THEN StrategyOf(scipy_calls[1])
    ELSE StrategyOf(scipy_calls[FirstStageWith(StageResults,
                                               result.objective_value)])

\* C24: the method field of every OptimizationResult names the search
\* strategy that actually produced the returned optimum, for both
\* optimize_minimize_waste and optimize_target_waste: a result of the global
\* population-based search is never labelled with the local-descent method
\* name, and vice versa.
C24_MethodNamesStrategy ==
    op \in {"optimize_minimize_waste", "optimize_target_waste"} =>
        result.method = ProducedBy

\* a supplied field is invalid: the month not an integer or not in 1..12,
\* another feature below or above its global bounds (a nan, which compares
\* as neither, is not counted here)
FieldInvalid(item) ==
    IF item.feature = "month"
    THEN ~(isinstance_int(item.value) /\ item.value.int \in 1..12)
    ELSE outside_bounds(item)

\* the first invalid field, in the order the fields were supplied
FirstInvalid(features) ==
    CHOOSE i \in DOMAIN features :
        /\ FieldInvalid(features[i])
        /\ \A k \in 1..(i - 1) : ~FieldInvalid(features[k])

\* C25: when several supplied fields are invalid, validate_features reports
\* exactly one violation, and it is the first invalid field in the order the
\* fields were supplied, whether that field is the month (non-integer or
\* outside 1..12) or another feature outside its global bounds.
C25_FirstViolationReported ==
    (/\ op = "validate_features"
     /\ \E i, j \in DOMAIN args.features :
           i # j /\ FieldInvalid(args.features[i]) /\ FieldInvalid(args.features[j]))
        => /\ result[1] = FALSE
           /\ result[2].feature =
                  args.features[FirstInvalid(args.features)].feature
           /\ result[2].value =
                  args.features[FirstInvalid(args.features)].value

OtherFactors == {I(1), Q(3, 5), I(3)}

\* the call in args under another weight setting and calibration factor
PredictedUnder(w, factor) ==
    predict_one_month(w[1], w[2], w[3], factor, args.production, args.rain,
                      args.temp, args.humidity, args.wind,
                      args.production_capacity)

\* C27: for fixed production, capacity and weather, the bittern volume and
\* the three byproduct values returned by predict_one_month are the same for
\* every calibration_factor and every score-weight setting; only
\* Total_Waste_kg and the three solid masses depend on them.
C27_LiquidsIndependentOfTotal ==
    op = "predict_one_month" =>
        \A w \in WeightSettings, factor \in OtherFactors :
            \E other \in {PredictedUnder(w, factor)} :
                /\ other.raised = result.raised
                /\ result.raised = "" =>
                      \A f \in LiquidFields : other[f] = result[f]

C27_Witness ==
    /\ op = "predict_one_month"
    /\ result.raised = ""
    /\ calibration_factor = I(3)
    /\ ~IsZero(rain_weight)
    /\ Lt(I(0), result.Liquid_Waste_Bittern_Liters)
    /\ Lt(I(0), result.Potential_Potash_kg)
    /\ \E other \in {PredictedUnder(<<1, I(0), I(0)>>, I(1))} :
          /\ other.Total_Waste_kg # result.Total_Waste_kg
          /\ other.Solid_Waste_Gypsum_kg # result.Solid_Waste_Gypsum_kg
          /\ \A f \in LiquidFields : other[f] = result[f]

\* the bounds handed to scipy by the i-th call to scipy of a log are those
\* of some run of the log, computed from the tables as the class statement
\* left them and that run's own arguments
BoundsOfOwnRun(i) ==
    \E k \in DOMAIN args :
        /\ args[k].call \in {"optimize_minimize_waste", "optimize_target_waste"}
        /\ \E unwritten \in
                {IF args[k].use_seasonal_constraints
                    /\ SeasonsHolding(args[k].month) # {}
                 THEN [f \in DOMAIN FeatureConstraints.BOUNDS |->
                          IF f \in WeatherFeatures
                          THEN FeatureConstraints.SEASONAL_PATTERNS[
                                   CHOOSE s \in SeasonsHolding(args[k].month) : TRUE][f]
                          ELSE FeatureConstraints.BOUNDS[f]]
                 ELSE FeatureConstraints.BOUNDS} :
              scipy_calls[i].bounds =
                  [j \in DOMAIN feature_order |->
                      IF feature_order[j] = "month"
                      THEN <<I(args[k].month), I(args[k].month)>>
                      ELSE IF feature_order[j] = "production_kg"
                              /\ args[k].production_kg # None
                      THEN <<args[k].production_kg, args[k].production_kg>>
                      ELSE unwritten[feature_order[j]]]

\* C28: no sequence of get_bounds, get_seasonal_bounds,
\* optimize_minimize_waste and optimize_target_waste calls (runs with a fixed
\* production_kg and with use_seasonal_constraints = False included) changes
\* the global BOUNDS table or the seasonal table, so the bounds used by a run
\* depend only on that run's own arguments and never on earlier runs.
C28_RunsLeaveTables ==
    /\ constraints = FeatureConstraints
    /\ \A k \in DOMAIN args :
          /\ args[k].call = "get_bounds" /\ args[k].as_tuple =>
                result[k] = FeatureConstraints.BOUNDS
          /\ args[k].call = "get_seasonal_bounds" /\ args[k].month = 13 =>
                result[k] = FeatureConstraints.BOUNDS
    /\ \A i \in DOMAIN scipy_calls : BoundsOfOwnRun(i)

C28_Witness ==
    /\ Len(args) = 2
    /\ args[1].call = "optimize_minimize_waste"
    /\ args[1].production_kg = I(3000000)
    /\ ~args[1].use_seasonal_constraints
    /\ args[2].call = "optimize_target_waste"
    /\ args[2].production_kg = None
    /\ ~args[2].use_seasonal_constraints
    /\ scipy_calls[1].bounds[5] = <<I(3000000), I(3000000)>>
    /\ scipy_calls[2].bounds[5] = FeatureConstraints.BOUNDS.production_kg
    /\ BOUNDS.production_kg = <<I(500000), I(10000000)>>

\* what the installed scipy returns for the calls of the run in args, with
\* the value of the run's objective at each point
RunStages ==
    [i \in DOMAIN scipy_calls |->
        CHOOSE stage \in
            {found @@ [fun |-> ObjectiveAt(found.x)] :
                found \in
                    {IF scipy_calls[i].function = "differential_evolution"
                     THEN differential_evolution(solver, scipy_calls[i].bounds,
                                                 scipy_calls[i].maxiter)
                     ELSE minimize(solver, scipy_calls[i].x0,
                                   scipy_calls[i].bounds,
                                   scipy_calls[i].maxiter)}} : TRUE]

\* the objective of the run, computed again from the predicted_waste and
\* target_waste fields of what it returned
ObjectiveFromResult ==
    IF op = "optimize_minimize_waste" THEN result.predicted_waste.total_waste_kg
    ELSE target_error(result.predicted_waste, result.target_waste,
                      IF args.weights = None
                      THEN [k \in DOMAIN result.target_waste |-> I(1)]
                      ELSE args.weights,
                      DOMAIN result.target_waste)

\* C29: every field of a returned OptimizationResult describes the same
\* search stage and the same point: success, message, iterations,
\* objective_value and optimal_features come from the one kept solver
\* result, predicted_waste is the model at that optimal point, and
\* objective_value is the objective computed again from predicted_waste (the
\* total-waste percentage in minimize mode, the weighted squared deviation
\* from target_waste in target mode).
C29_FieldsOfOneStage ==
    op \in {"optimize_minimize_waste", "optimize_target_waste"} =>
        /\ \E stages \in {RunStages} :
              \E i \in DOMAIN stages :
                  /\ result.success = stages[i].success
                  /\ result.message = stages[i].message
                  /\ result.iterations = stages[i].nit
                  /\ result.objective_value = stages[i].fun
                  /\ PointOf(result.optimal_features) = stages[i].x
        /\ result.predicted_waste =
               predict_waste(model, PointOf(result.optimal_features))
        /\ result.objective_value = ObjectiveFromResult
        /\ result.target_waste =
               IF op = "optimize_target_waste" THEN args.target_percentages
               ELSE <<>>

C29_Witness ==
    /\ op = "optimize_target_waste"
    /\ Len(scipy_calls) = 4
    /\ solver.global_success
    /\ ~solver.local_success
    /\ args.weights # None
    /\ result.success = FALSE
    /\ result.iterations = 1000
    /\ Lt(I(0), result.objective_value)
    /\ result.objective_value # RunStages[1].fun
    /\ result.predicted_waste.total_waste_kg # args.target_percentages.total_waste_kg

\* an optimal_features dict as validate_features gets it: the items in the
\* order of feature_order, the month the Python int that int(round(.)) gives
ItemsOf(features) ==
    [i \in DOMAIN feature_order |->
        [feature |-> feature_order[i],
         value |-> IF feature_order[i] = "month" THEN PyInt(features.month)
                   ELSE features[feature_order[i]]]]

\* C30: for every month in 1..12, either value of use_seasonal_constraints,
\* and a production level that is either not fixed or fixed inside the
\* global production bounds, the optimal_features returned by
\* optimize_minimize_waste or optimize_target_waste are accepted by
\* validate_features: every seasonal interval lies inside the corresponding
\* global interval and the returned month is an integer in 1..12.
C30_OptimalFeaturesValid ==
    /\ \A s \in DOMAIN SEASONAL_PATTERNS : \A f \in WeatherFeatures :
          /\ Le(BOUNDS[f][1], SEASONAL_PATTERNS[s][f][1])
          /\ Le(SEASONAL_PATTERNS[s][f][2], BOUNDS[f][2])
    /\ (/\ op \in {"optimize_minimize_waste", "optimize_target_waste"}
        /\ args.month \in 1..12
        /\ args.production_kg # None =>
              InBounds(args.production_kg, BOUNDS.production_kg))
          => /\ validate_features(ItemsOf(result.optimal_features))
                    = <<TRUE, [text |-> "Valid"]>>
             /\ result.optimal_features.month \in 1..12

C30_Witness ==
    /\ op = "optimize_minimize_waste"
    /\ args.month = 12
    /\ args.use_seasonal_constraints
    /\ args.production_kg = I(3000000)
    /\ solver.corner = 1
    /\ result.optimal_features.humidity_pct = I(85)
    /\ result.optimal_features.month = 12
    /\ validate_features(ItemsOf(result.optimal_features))[1]

=============================================================================
